---- MODULE Spec2Model ----
(***************************************************************************)
(* l402-requests: the request orchestrator (L402Client / AsyncL402Client), *)
(* the budget controller, the credential cache, the spending log, the      *)
(* challenge parser and the BOLT11 amount extractor.                       *)
(*                                                                         *)
(* Strings that the code inspects (lower-cases, strips, matches against a  *)
(* regular expression, concatenates) are sequences of one-character        *)
(* strings.  Python's Optional[T] is the empty sequence (None) or a        *)
(* one-element sequence.  A URL path is the list path.split("/") yields.   *)
(***************************************************************************)
EXTENDS Integers, Sequences, FiniteSets, TLC

\* ------------------------------------------------------------------------
\* Optional values and string helpers
\* ------------------------------------------------------------------------

\* Python None
None == <<>>

\* a present Optional value
Some(x) == <<x>>

\* Python truthiness of "x is not None"
IsSome(o) == o # <<>>

\* the value held by a present Optional
Val(o) == o[1]

UpperChars == <<"A","B","C","D","E","F","G","H","I","J","K","L","M",
                "N","O","P","Q","R","S","T","U","V","W","X","Y","Z">>

LowerChars == <<"a","b","c","d","e","f","g","h","i","j","k","l","m",
                "n","o","p","q","r","s","t","u","v","w","x","y","z">>

DigitChars == <<"0","1","2","3","4","5","6","7","8","9">>

\* str.lower() on one character
lower_char(c) ==
    IF \E i \in 1..26 : UpperChars[i] = c
    THEN LowerChars[CHOOSE i \in 1..26 : UpperChars[i] = c]
    ELSE c

\* str.lower()
lower(s) == [i \in 1..Len(s) |-> lower_char(s[i])]

\* the regular expression class \s (and what str.strip() removes)
IsSpace(c) == c \in {" ", "\t", "\n"}

\* the regular expression class \d
IsDigit(c) == \E i \in 1..10 : DigitChars[i] = c

\* the regular expression class [a-z]
IsAlpha(c) == \E i \in 1..26 : LowerChars[i] = c

\* str.strip()
strip(s) ==
    LET keep == {i \in 1..Len(s) : ~IsSpace(s[i])}
    IN  IF keep = {} THEN <<>>
        ELSE LET lo == CHOOSE i \in keep : \A j \in keep : i <= j
                 hi == CHOOSE i \in keep : \A j \in keep : j <= i
             IN  SubSeq(s, lo, hi)

\* where a greedy run of a character class started at i ends: the first
\* position >= i of s that is past the end or among stops, the positions of
\* the characters outside the class
RunEnd(s, i, stops) ==
    CHOOSE j \in i..(Len(s) + 1) :
        /\ (j = Len(s) + 1 \/ j \in stops)
        /\ \A k \in i..(j - 1) : k \notin stops

\* the positions of s that \s does not match
NonSpacesIn(s) == {j \in 1..Len(s) : ~IsSpace(s[j])}

\* where a greedy \s* started at i ends
SkipSpaces(s, i) == RunEnd(s, i, NonSpacesIn(s))

\* a case-insensitive literal (given in lower case) matches s at position i
StartsWithCI(s, i, lit) ==
    /\ i >= 1
    /\ i + Len(lit) - 1 <= Len(s)
    /\ \A k \in 1..Len(lit) : lower_char(s[i + k - 1]) = lit[k]

\* ------------------------------------------------------------------------
\* bolt11.py: the amount of a BOLT11 invoice, in satoshis
\* ------------------------------------------------------------------------

\* int() of a string of decimal digits
RECURSIVE DigitsToNat(_)
DigitsToNat(ds) ==
    IF ds = <<>> THEN 0
    ELSE 10 * DigitsToNat(SubSeq(ds, 1, Len(ds) - 1))
         + ((CHOOSE i \in 1..10 : DigitChars[i] = ds[Len(ds)]) - 1)

\* the class [munp] of the multiplier group
IsMultiplier(c) == c \in {"m", "u", "n", "p"}

\* The precision of the decimal context Decimal arithmetic runs in
\* (decimal.getcontext().prec, which the module leaves at its default):
\* the result of a multiplication is rounded to this many digits.
DECIMAL_PREC == 28

\* A Decimal is [coef |-> the digits of its coefficient, exp |-> its
\* exponent]: the number coef * 10^exp.  An int too large for a machine
\* word is the string of its digits.

\* k zeros
Zeros(k) == [i \in 1..k |-> "0"]

\* the digits of the number ds is a numeral of: no leading zero
RECURSIVE CanonDigits(_)
CanonDigits(ds) ==
    IF ds = <<>> THEN <<"0">>
    ELSE IF Len(ds) > 1 /\ Head(ds) = "0" THEN CanonDigits(Tail(ds))
    ELSE ds

\* the number a digit stands for
DigitValue(c) == (CHOOSE i \in 1..10 : DigitChars[i] = c) - 1

\* the digits of the number after the one ds is the digits of
RECURSIVE Increment(_)
Increment(ds) ==
    IF ds = <<>> THEN <<"1">>
    ELSE IF ds[Len(ds)] = "9"
    THEN Append(Increment(SubSeq(ds, 1, Len(ds) - 1)), "0")
    ELSE Append(SubSeq(ds, 1, Len(ds) - 1), DigitChars[DigitValue(ds[Len(ds)]) + 2])

\* the context's rounding (ROUND_HALF_EVEN) of the coefficient ds to
\* DECIMAL_PREC digits: the Decimal it is rounded to
RoundHalfEven(ds) ==
    IF Len(ds) <= DECIMAL_PREC THEN [coef |-> ds, exp |-> 0]
    ELSE LET kept == SubSeq(ds, 1, DECIMAL_PREC)
             rest == SubSeq(ds, DECIMAL_PREC + 1, Len(ds))
             up == \/ DigitValue(rest[1]) > 5
                   \/ /\ DigitValue(rest[1]) = 5
                      /\ \/ \E i \in 2..Len(rest) : rest[i] # "0"
                         \/ DigitValue(kept[DECIMAL_PREC]) % 2 = 1
         IN  [coef |-> IF up THEN Increment(kept) ELSE kept, exp |-> Len(rest)]

\* a * b for the Decimal b = 10^zeros * 10^exponent, whose coefficient is
\* a one followed by zeros zeros ("0.001" is 1E-3, "100000000" is
\* 100000000E0): the exact product, rounded
DecimalMul(a, zeros, exponent) ==
    LET rounded == RoundHalfEven(CanonDigits(a.coef \o Zeros(zeros)))
    IN  [coef |-> rounded.coef, exp |-> a.exp + exponent + rounded.exp]

\* int(a): the digits of a truncated to an integer
DecimalInt(a) ==
    IF a.exp >= 0 THEN CanonDigits(a.coef \o Zeros(a.exp))
    ELSE IF -a.exp >= Len(a.coef) THEN <<"0">>
    ELSE SubSeq(a.coef, 1, Len(a.coef) + a.exp)

\* the exponent of _MULTIPLIERS[multiplier]
MultiplierExponent(multiplier) ==
    CASE multiplier = "m" -> -3
      [] multiplier = "u" -> -6
      [] multiplier = "n" -> -9
      [] multiplier = "p" -> -12

\* The ways _BOLT11_RE can match s from its start: <<k, d, m>> where the
\* network group has k letters, the amount group d digits (0: the group did
\* not take part) and m = 1 when the multiplier group took part.
Bolt11Matches(s) ==
    {x \in (1..Len(s)) \X (0..Len(s)) \X {0, 1} :
        LET k == x[1]
            d == x[2]
            m == x[3]
            q == 3 + k
            r == q + d
        IN  /\ StartsWithCI(s, 1, <<"l", "n">>)
            /\ r + m <= Len(s)
            /\ \A i \in 3..(q - 1) : IsAlpha(lower_char(s[i]))
            /\ \A i \in q..(r - 1) : IsDigit(s[i])
            /\ m = 1 => IsMultiplier(lower_char(s[r]))
            /\ s[r + m] = "1"}

\* The match the backtracking matcher takes: the network group is lazy
\* (fewest letters first), the amount group greedy (most digits first, then
\* absent), the multiplier group is tried present before absent.
Bolt11Match(s) ==
    CHOOSE x \in Bolt11Matches(s) :
        \A y \in Bolt11Matches(s) :
            \/ x[1] < y[1]
            \/ x[1] = y[1] /\ x[2] > y[2]
            \/ x[1] = y[1] /\ x[2] = y[2] /\ x[3] >= y[3]

\* what extract_amount_sats computes from the match x of _BOLT11_RE on
\* invoice: None when the amount group did not take part, else the digits
\* of int(Decimal(amount_str) * _MULTIPLIERS[multiplier] * _SATS_PER_BTC)
MatchedSats(invoice, x) ==
    LET q == 3 + x[1]
        amount_str == SubSeq(invoice, q, q + x[2] - 1)
        amount == [coef |-> CanonDigits(amount_str), exp |-> 0]
        btc_amount == IF x[3] = 1
                      THEN DecimalMul(amount, 0,
                                      MultiplierExponent(invoice[q + x[2]]))
                      ELSE amount
    IN  IF x[2] = 0 THEN None
        ELSE Some(DecimalInt(DecimalMul(btc_amount, 8, 0)))

\* what extract_amount_sats returns for invoice = bolt11.strip().lower(),
\* in digits
StrippedSats(invoice) ==
    IF Bolt11Matches(invoice) = {} THEN None
    ELSE MatchedSats(invoice, Bolt11Match(invoice))

\* extract_amount_sats(bolt11), the int it returns in digits: None or
\* Some(digits)
ExtractedSats(bolt11) ==
    IF bolt11 = <<>> THEN None ELSE StrippedSats(lower(strip(bolt11)))

\* extract_amount_sats(bolt11): None or Some(sats)
extract_amount_sats(bolt11) ==
    IF ExtractedSats(bolt11) = None THEN None
    ELSE Some(DigitsToNat(Val(ExtractedSats(bolt11))))

\* ------------------------------------------------------------------------
\* challenge.py: the L402 challenge of a WWW-Authenticate header
\* ------------------------------------------------------------------------

SchemeL402 == <<"l", "4", "0", "2">>

SchemeLSAT == <<"l", "s", "a", "t">>

KeyMacaroon == <<"m", "a", "c", "a", "r", "o", "o", "n", "=">>

KeyInvoice == <<"i", "n", "v", "o", "i", "c", "e", "=">>

Quote == "\""

IsQuote(c) == c = Quote

\* the class [\s,] that ends an unquoted value
IsSpaceOrComma(c) == IsSpace(c) \/ c = ","

\* the positions of h that [^"] does not match
QuotesIn(h) == {j \in 1..Len(h) : IsQuote(h[j])}

\* the positions of h that [^\s,] does not match
SeparatorsIn(h) == {j \in 1..Len(h) : IsSpaceOrComma(h[j])}

\* (?:L402|LSAT)\s+ matched at position i: the position after it, or 0
AfterScheme(h, i) ==
    IF (StartsWithCI(h, i, SchemeL402) \/ StartsWithCI(h, i, SchemeLSAT))
       /\ SkipSpaces(h, i + 4) > i + 4
    THEN SkipSpaces(h, i + 4)
    ELSE 0

\* _CHALLENGE_RE matched at position i: None or Some([macaroon, invoice])
MatchQuotedAt(h, i) ==
    LET i2 == AfterScheme(h, i)
        i3 == i2 + Len(KeyMacaroon) + 1
        i4 == RunEnd(h, i3, QuotesIn(h))
        i6 == SkipSpaces(h, i4 + 1)
        i7 == SkipSpaces(h, i6 + 1)
        i8 == i7 + Len(KeyInvoice) + 1
        i9 == RunEnd(h, i8, QuotesIn(h))
    IN  IF /\ i2 # 0
           /\ StartsWithCI(h, i2, KeyMacaroon \o <<Quote>>)
           /\ i4 > i3 /\ i4 <= Len(h)
           /\ i6 <= Len(h) /\ h[i6] = ","
           /\ StartsWithCI(h, i7, KeyInvoice \o <<Quote>>)
           /\ i9 > i8 /\ i9 <= Len(h)
        THEN Some([macaroon |-> SubSeq(h, i3, i4 - 1),
                   invoice |-> SubSeq(h, i8, i9 - 1)])
        ELSE None

\* where \s*,?\s* started at e can end with the letter of invoice= next
AfterSeparator(h, e) ==
    LET p == SkipSpaces(h, e)
    IN  IF p <= Len(h) /\ h[p] = "," THEN SkipSpaces(h, p + 1) ELSE p

\* _CHALLENGE_NOQUOTE_RE matched at position i.  The macaroon group is
\* greedy and gives characters back until invoice= follows the separator.
MatchNoQuoteAt(h, i) ==
    LET i2 == AfterScheme(h, i)
        i3 == i2 + Len(KeyMacaroon)
        ends == {e \in (i3 + 1)..RunEnd(h, i3, SeparatorsIn(h)) :
                    LET p == AfterSeparator(h, e)
                    IN  /\ StartsWithCI(h, p, KeyInvoice)
                        /\ RunEnd(h, p + Len(KeyInvoice), SeparatorsIn(h))
                               > p + Len(KeyInvoice)}
    IN  IF i2 # 0 /\ StartsWithCI(h, i2, KeyMacaroon) /\ ends # {}
        THEN LET e == CHOOSE x \in ends : \A y \in ends : y <= x
                 p == AfterSeparator(h, e) + Len(KeyInvoice)
             IN  Some([macaroon |-> SubSeq(h, i3, e - 1),
                       invoice |-> SubSeq(h, p, RunEnd(h, p, SeparatorsIn(h)) - 1)])
        ELSE None

\* pattern.search: of the matches at each position (None where there is
\* none), the one at the leftmost position that has one
Leftmost(matches) ==
    LET hits == {i \in DOMAIN matches : IsSome(matches[i])}
    IN  IF hits = {} THEN None
        ELSE matches[CHOOSE i \in hits : \A j \in hits : i <= j]

\* _CHALLENGE_RE.search(header)
SearchQuoted(h) == Leftmost([i \in 1..Len(h) |-> MatchQuotedAt(h, i)])

\* _CHALLENGE_NOQUOTE_RE.search(header)
SearchNoQuote(h) == Leftmost([i \in 1..Len(h) |-> MatchNoQuoteAt(h, i)])

\* parse_challenge(header): [ok |-> TRUE, challenge |-> [macaroon, invoice]]
\* or [ok |-> FALSE, error |-> ChallengeParseError]
\* raise ChallengeParseError(header, reason)
ChallengeParseError(header, reason) ==
    [ok |-> FALSE,
     error |-> [type |-> "ChallengeParseError", header |-> header,
                reason |-> reason]]

\* a or b, for matches
OrElse(a, b) == IF IsSome(a) THEN a ELSE b

\* what parse_challenge does with the stripped groups of the match
Stripped(header, macaroon, invoice) ==
    IF macaroon = <<>> THEN ChallengeParseError(header, "empty macaroon")
    ELSE IF invoice = <<>> THEN ChallengeParseError(header, "empty invoice")
    ELSE [ok |-> TRUE,
          challenge |-> [macaroon |-> macaroon, invoice |-> invoice]]

\* what parse_challenge does with match, the result of the two searches
Matched(header, match) ==
    IF ~IsSome(match)
    THEN ChallengeParseError(header, "no L402/LSAT challenge found")
    ELSE Stripped(header, strip(Val(match).macaroon), strip(Val(match).invoice))

parse_challenge(header) ==
    IF header = <<>> THEN ChallengeParseError(header, "empty header")
    ELSE Matched(header, OrElse(SearchQuoted(header), SearchNoQuote(header)))

\* {k.lower(): v for k, v in headers.items()}.get(name, ""): hdrs is the
\* list of <<name, value>> items of the dict; a later item with the same
\* lower-cased name overwrites an earlier one
HeaderGet(hdrs, name) ==
    LET hits == {i \in 1..Len(hdrs) : lower(hdrs[i][1]) = name}
    IN  IF hits = {} THEN <<>>
        ELSE hdrs[CHOOSE i \in hits : \A j \in hits : j <= i][2]

WWWAuthenticate ==
    <<"w","w","w","-","a","u","t","h","e","n","t","i","c","a","t","e">>

\* try: return parse_challenge(www_auth)
\* except ChallengeParseError: return None
ChallengeOrNone(parsed) ==
    IF parsed.ok THEN Some(parsed.challenge) ELSE None

\* Mutation of find_l402_challenge: a header that does not parse is taken
\* whole as the invoice of a challenge instead of being passed over
find_l402_challenge_Unparsed(hdrs) ==
    LET www_auth == HeaderGet(hdrs, WWWAuthenticate)
    IN  IF www_auth # <<>> /\ parse_challenge(www_auth).ok
        THEN Some(parse_challenge(www_auth).challenge)
        ELSE Some([macaroon |-> <<>>, invoice |-> www_auth])

\* find_l402_challenge(headers): None or Some(challenge)
find_l402_challenge(hdrs) ==
    LET www_auth == HeaderGet(hdrs, WWWAuthenticate)
    IN  IF www_auth = <<>> THEN None
        ELSE ChallengeOrNone(parse_challenge(www_auth))

\* ------------------------------------------------------------------------
\* credential_cache.py
\* ------------------------------------------------------------------------

\* the default of CredentialCache's default_ttl, in seconds
DEFAULT_TTL == 3600

\* Mutation of is_expired: a credential lives through the instant expires_at
is_expired_Late(cred, at) ==
    IF cred.expires_at = None THEN FALSE ELSE at > Val(cred.expires_at)

\* L402Credential.is_expired() when time.time() is at
is_expired(cred, at) ==
    IF cred.expires_at = None THEN FALSE ELSE at >= Val(cred.expires_at)

\* L402Credential.authorization_header
authorization_header(cred) ==
    <<"L", "4", "0", "2", " ">> \o cred.macaroon \o <<":">> \o cred.preimage

\* [p for p in path.split("/") if p]: path is the list split("/") yields
NonEmptyParts(path) == SelectSeq(path, LAMBDA p : p # "")

\* Mutation of _cache_key: the whole path is the prefix
_cache_key_WholePath(domain, path) ==
    <<strip(lower(domain)), NonEmptyParts(path)>>

\* _cache_key(domain, path): <<domain, prefix>>; the prefix "/a/b" is the
\* list of its (at most two) segments
_cache_key(domain, path) ==
    LET parts == NonEmptyParts(path)
    IN  <<strip(lower(domain)),
          IF Len(parts) >= 2 THEN SubSeq(parts, 1, 2) ELSE parts>>

\* the position of key in the OrderedDict entries, 0 when absent
IndexOf(entries, key) ==
    IF \E i \in 1..Len(entries) : entries[i].key = key
    THEN CHOOSE i \in 1..Len(entries) : entries[i].key = key
    ELSE 0

\* del entries[entries.keys()[i]]
RemoveAt(entries, i) ==
    SubSeq(entries, 1, i - 1) \o SubSeq(entries, i + 1, Len(entries))

\* Mutation of CredentialCache.get: a hit leaves the entry where it is
CredentialCache_get_Unmoved(cache, domain, path, at) ==
    LET key == _cache_key(domain, path)
        i == IndexOf(cache.entries, key)
    IN  IF i = 0 THEN [cache |-> cache, cred |-> None]
        ELSE IF is_expired(cache.entries[i].cred, at)
        THEN [cache |-> [cache EXCEPT !.entries = RemoveAt(cache.entries, i)],
              cred |-> None]
        ELSE [cache |-> cache, cred |-> Some(cache.entries[i].cred)]

\* CredentialCache.get(domain, path) when time.time() is at:
\* [cache |-> the cache afterwards, cred |-> None or Some(credential)]
CredentialCache_get(cache, domain, path, at) ==
    LET key == _cache_key(domain, path)
        i == IndexOf(cache.entries, key)
    IN  IF i = 0 THEN [cache |-> cache, cred |-> None]
        ELSE IF is_expired(cache.entries[i].cred, at)
        THEN [cache |-> [cache EXCEPT !.entries = RemoveAt(cache.entries, i)],
              cred |-> None]
        ELSE [cache |-> [cache EXCEPT !.entries =
                             Append(RemoveAt(cache.entries, i), cache.entries[i])],
              cred |-> Some(cache.entries[i].cred)]

\* Mutation of the eviction loop: popitem() takes the newest entry
RECURSIVE EvictOldest_Newest(_, _)
EvictOldest_Newest(entries, max_size) ==
    IF Len(entries) > max_size /\ entries # <<>>
    THEN EvictOldest_Newest(SubSeq(entries, 1, Len(entries) - 1), max_size)
    ELSE entries

\* while len(self._cache) > self._max_size: self._cache.popitem(last=False)
RECURSIVE EvictOldest(_, _)
EvictOldest(entries, max_size) ==
    IF Len(entries) > max_size /\ entries # <<>>
    THEN EvictOldest(Tail(entries), max_size)
    ELSE entries

\* Mutation of CredentialCache.put: a key that is stored keeps its entry
CredentialCache_put_KeepStored(cache, domain, path, macaroon, preimage, expires_at, at) ==
    LET key == _cache_key(domain, path)
        exp == IF expires_at = None /\ cache.default_ttl # None
               THEN Some(at + Val(cache.default_ttl))
               ELSE expires_at
        cred == [macaroon |-> macaroon, preimage |-> preimage,
                 created_at |-> at, expires_at |-> exp]
    IN  IF IndexOf(cache.entries, key) # 0 THEN cache
        ELSE [cache EXCEPT !.entries =
                  EvictOldest(Append(cache.entries, [key |-> key, cred |-> cred]),
                              cache.max_size)]

\* CredentialCache.put(domain, path, macaroon, preimage, expires_at) when
\* time.time() is at: the cache afterwards
CredentialCache_put(cache, domain, path, macaroon, preimage, expires_at, at) ==
    LET key == _cache_key(domain, path)
        exp == IF expires_at = None /\ cache.default_ttl # None
               THEN Some(at + Val(cache.default_ttl))
               ELSE expires_at
        cred == [macaroon |-> macaroon, preimage |-> preimage,
                 created_at |-> at, expires_at |-> exp]
        i == IndexOf(cache.entries, key)
        without == IF i # 0 THEN RemoveAt(cache.entries, i) ELSE cache.entries
    IN  [cache EXCEPT !.entries =
             EvictOldest(Append(without, [key |-> key, cred |-> cred]),
                         cache.max_size)]

\* CredentialCache.clear(): the cache afterwards
CredentialCache_clear(cache) == [cache EXCEPT !.entries = <<>>]

\* CredentialCache.__len__()
CredentialCache_len(cache) == Len(cache.entries)

\* ------------------------------------------------------------------------
\* budget.py
\* ------------------------------------------------------------------------

\* the one-hour window of BudgetController and SpendingLog, in seconds
HOUR == 3600

\* the 24-hour window of BudgetController and SpendingLog
DAY == 86400

\* sum(amt for ts, amt in payments if ts >= since)
RECURSIVE SumSince(_, _)
SumSince(payments, since) ==
    IF payments = <<>> THEN 0
    ELSE (IF Head(payments)[1] >= since THEN Head(payments)[2] ELSE 0)
         + SumSince(Tail(payments), since)

\* Mutation of _prune: the payments older than one hour are removed
RECURSIVE _prune_Hour(_, _)
_prune_Hour(payments, at) ==
    IF payments # <<>> /\ Head(payments)[1] < at - HOUR
    THEN _prune_Hour(Tail(payments), at)
    ELSE payments

\* BudgetController._prune(at): the payments left
RECURSIVE _prune(_, _)
_prune(payments, at) ==
    IF payments # <<>> /\ Head(payments)[1] < at - DAY
    THEN _prune(Tail(payments), at)
    ELSE payments

\* Mutation of the allow-list step: the domain is compared as it is written
DomainRejected_CaseSensitive(budget, domain) ==
    /\ budget.allowed_domains # None
    /\ domain # None /\ Val(domain) # <<>>
    /\ Val(domain) \notin Val(budget.allowed_domains)

\* the allow-list step of BudgetController.check: the domain is rejected
DomainRejected(budget, domain) ==
    /\ budget.allowed_domains # None
    /\ domain # None /\ Val(domain) # <<>>
    /\ lower(Val(domain)) \notin {lower(d) : d \in Val(budget.allowed_domains)}

BudgetExceededError(limit_type, limit_sats, current_sats, invoice_sats) ==
    [type |-> "BudgetExceededError", limit_type |-> limit_type,
     limit_sats |-> limit_sats, current_sats |-> current_sats,
     invoice_sats |-> invoice_sats]

\* Mutation of BudgetController.check: the windows are tested without the
\* amount of the invoice
BudgetController_check_SpentOnly(budget, amount, domain, at) ==
    LET pruned == [budget EXCEPT !.payments = _prune(budget.payments, at)]
        spent_hour == SumSince(pruned.payments, at - HOUR)
        spent_day == SumSince(pruned.payments, at - DAY)
    IN  IF DomainRejected(budget, domain)
        THEN [budget |-> budget,
              error |-> Some([type |-> "DomainNotAllowedError",
                              domain |-> Val(domain)])]
        ELSE IF amount > budget.max_sats_per_request
        THEN [budget |-> budget,
              error |-> Some(BudgetExceededError(
                            "per_request", budget.max_sats_per_request, 0,
                            amount))]
        ELSE IF spent_hour > budget.max_sats_per_hour
        THEN [budget |-> pruned,
              error |-> Some(BudgetExceededError(
                            "per_hour", budget.max_sats_per_hour, spent_hour,
                            amount))]
        ELSE IF spent_day > budget.max_sats_per_day
        THEN [budget |-> pruned,
              error |-> Some(BudgetExceededError(
                            "per_day", budget.max_sats_per_day, spent_day,
                            amount))]
        ELSE [budget |-> pruned, error |-> None]

\* Mutation of BudgetController.check: the payment is entered in the window
\* before the ceilings are tested, so a refused payment stays counted
BudgetController_check_Counting(budget, amount, domain, at) ==
    LET counted == [budget EXCEPT !.payments = Append(@, <<at, amount>>)]
    IN  IF DomainRejected(budget, domain)
        THEN [budget |-> counted,
              error |-> Some([type |-> "DomainNotAllowedError",
                              domain |-> Val(domain)])]
        ELSE IF amount > budget.max_sats_per_request
        THEN [budget |-> counted,
              error |-> Some(BudgetExceededError(
                            "per_request", budget.max_sats_per_request, 0,
                            amount))]
        ELSE [budget |-> budget, error |-> None]

\* Mutation of BudgetController.check: the windows are tested before the
\* ceiling of one request
BudgetController_check_WindowsFirst(budget, amount, domain, at) ==
    LET pruned == [budget EXCEPT !.payments = _prune(budget.payments, at)]
        spent_hour == SumSince(pruned.payments, at - HOUR)
        spent_day == SumSince(pruned.payments, at - DAY)
    IN  IF DomainRejected(budget, domain)
        THEN [budget |-> budget,
              error |-> Some([type |-> "DomainNotAllowedError",
                              domain |-> Val(domain)])]
        ELSE IF spent_hour + amount > budget.max_sats_per_hour
        THEN [budget |-> pruned,
              error |-> Some(BudgetExceededError(
                            "per_hour", budget.max_sats_per_hour, spent_hour,
                            amount))]
        ELSE IF spent_day + amount > budget.max_sats_per_day
        THEN [budget |-> pruned,
              error |-> Some(BudgetExceededError(
                            "per_day", budget.max_sats_per_day, spent_day,
                            amount))]
        ELSE IF amount > budget.max_sats_per_request
        THEN [budget |-> pruned,
              error |-> Some(BudgetExceededError(
                            "per_request", budget.max_sats_per_request, 0,
                            amount))]
        ELSE [budget |-> pruned, error |-> None]

\* Mutation of BudgetController.check: a window that would be filled to
\* its ceiling is refused
BudgetController_check_Exclusive(budget, amount, domain, at) ==
    LET pruned == [budget EXCEPT !.payments = _prune(budget.payments, at)]
        spent_hour == SumSince(pruned.payments, at - HOUR)
        spent_day == SumSince(pruned.payments, at - DAY)
    IN  IF DomainRejected(budget, domain)
        THEN [budget |-> budget,
              error |-> Some([type |-> "DomainNotAllowedError",
                              domain |-> Val(domain)])]
        ELSE IF amount > budget.max_sats_per_request
        THEN [budget |-> budget,
              error |-> Some(BudgetExceededError(
                            "per_request", budget.max_sats_per_request, 0,
                            amount))]
        ELSE IF spent_hour + amount >= budget.max_sats_per_hour
        THEN [budget |-> pruned,
              error |-> Some(BudgetExceededError(
                            "per_hour", budget.max_sats_per_hour, spent_hour,
                            amount))]
        ELSE IF spent_day + amount >= budget.max_sats_per_day
        THEN [budget |-> pruned,
              error |-> Some(BudgetExceededError(
                            "per_day", budget.max_sats_per_day, spent_day,
                            amount))]
        ELSE [budget |-> pruned, error |-> None]

\* BudgetController.check(amount, domain) when time.time() is at:
\* [budget |-> the controller afterwards, error |-> None or Some(error)]
BudgetController_check(budget, amount, domain, at) ==
    LET pruned == [budget EXCEPT !.payments = _prune(budget.payments, at)]
        spent_hour == SumSince(pruned.payments, at - HOUR)
        spent_day == SumSince(pruned.payments, at - DAY)
    IN  IF DomainRejected(budget, domain)
        THEN [budget |-> budget,
              error |-> Some([type |-> "DomainNotAllowedError",
                              domain |-> Val(domain)])]
        ELSE IF amount > budget.max_sats_per_request
        THEN [budget |-> budget,
              error |-> Some(BudgetExceededError(
                            "per_request", budget.max_sats_per_request, 0,
                            amount))]
        ELSE IF spent_hour + amount > budget.max_sats_per_hour
        THEN [budget |-> pruned,
              error |-> Some(BudgetExceededError(
                            "per_hour", budget.max_sats_per_hour, spent_hour,
                            amount))]
        ELSE IF spent_day + amount > budget.max_sats_per_day
        THEN [budget |-> pruned,
              error |-> Some(BudgetExceededError(
                            "per_day", budget.max_sats_per_day, spent_day,
                            amount))]
        ELSE [budget |-> pruned, error |-> None]

\* BudgetController.record_payment(amount) when time.time() is at
record_payment(budget, amount, at) ==
    [budget EXCEPT !.payments = Append(@, <<at, amount>>)]

\* Mutation of spent_last_hour: the hour's window is the day's
spent_last_hour_Day(budget, at) == SumSince(_prune(budget.payments, at), at - DAY)

\* BudgetController.spent_last_hour() when time.time() is at (after its prune)
spent_last_hour(budget, at) == SumSince(_prune(budget.payments, at), at - HOUR)

\* BudgetController.spent_last_day() when time.time() is at (after its prune)
spent_last_day(budget, at) == SumSince(_prune(budget.payments, at), at - DAY)

\* the defaults of the fields max_sats_per_request, max_sats_per_hour and
\* max_sats_per_day
DefaultMaxSatsPerRequest == 1000

DefaultMaxSatsPerHour == 10000

DefaultMaxSatsPerDay == 50000

\* BudgetController(): every field at its default
BudgetController_new ==
    [max_sats_per_request |-> DefaultMaxSatsPerRequest,
     max_sats_per_hour |-> DefaultMaxSatsPerHour,
     max_sats_per_day |-> DefaultMaxSatsPerDay,
     allowed_domains |-> None, payments |-> <<>>]

\* ------------------------------------------------------------------------
\* spending_log.py
\* ------------------------------------------------------------------------

\* Mutation of SpendingLog.record: the entry is put in front
SpendingLog_record_First(records, domain, path, amount, preimage, success, at) ==
    <<[domain |-> domain, path |-> path, amount_sats |-> amount,
       preimage |-> preimage, timestamp |-> at, success |-> success]>> \o records

\* SpendingLog.record(domain, path, amount, preimage, success) when
\* time.time() is at: the records afterwards
SpendingLog_record(records, domain, path, amount, preimage, success, at) ==
    Append(records, [domain |-> domain, path |-> path,
                     amount_sats |-> amount, preimage |-> preimage,
                     timestamp |-> at, success |-> success])

\* SpendingLog.total_spent()
RECURSIVE SpendingLog_total_spent(_)
SpendingLog_total_spent(records) ==
    IF records = <<>> THEN 0
    ELSE (IF Head(records).success THEN Head(records).amount_sats ELSE 0)
         + SpendingLog_total_spent(Tail(records))

\* SpendingLog.spent_last_hour() when time.time() is at
RECURSIVE SpendingLog_spent_last_hour(_, _)
SpendingLog_spent_last_hour(records, at) ==
    IF records = <<>> THEN 0
    ELSE (IF Head(records).success /\ Head(records).timestamp >= at - HOUR
          THEN Head(records).amount_sats ELSE 0)
         + SpendingLog_spent_last_hour(Tail(records), at)

\* Mutation of SpendingLog.spent_today: the window of an hour
SpendingLog_spent_today_Hour(records, at) == SpendingLog_spent_last_hour(records, at)

\* SpendingLog.spent_today() when time.time() is at
RECURSIVE SpendingLog_spent_today(_, _)
SpendingLog_spent_today(records, at) ==
    IF records = <<>> THEN 0
    ELSE (IF Head(records).success /\ Head(records).timestamp >= at - DAY
          THEN Head(records).amount_sats ELSE 0)
         + SpendingLog_spent_today(Tail(records), at)

\* SpendingLog.by_domain(): the dict as its items <<domain, total>>, in
\* the order the keys were inserted
RECURSIVE SpendingLog_by_domain(_)
SpendingLog_by_domain(records) ==
    IF records = <<>> THEN <<>>
    ELSE LET totals == SpendingLog_by_domain(SubSeq(records, 1, Len(records) - 1))
             r == records[Len(records)]
             held == {i \in 1..Len(totals) : totals[i][1] = r.domain}
         IN  IF ~r.success THEN totals
             ELSE IF held = {}
             THEN Append(totals, <<r.domain, 0 + r.amount_sats>>)
             ELSE [i \in 1..Len(totals) |->
                      IF i \in held
                      THEN <<r.domain, totals[i][2] + r.amount_sats>>
                      ELSE totals[i]]

\* SpendingLog.__len__()
SpendingLog_len(records) == Len(records)

\* ------------------------------------------------------------------------
\* exceptions.py
\* ------------------------------------------------------------------------

\* the classes derived from L402Error (and L402Error itself)
L402ErrorTypes ==
    {"L402Error", "BudgetExceededError", "PaymentFailedError",
     "InvoiceExpiredError", "ChallengeParseError", "NoWalletError",
     "DomainNotAllowedError"}

\* isinstance(e, L402Error)
IsL402Error(e) == e.type \in L402ErrorTypes

\* Mutation of PaymentFailedError: raised without the invoice
PaymentFailedError_NoInvoice(e, bolt11) ==
    [type |-> "PaymentFailedError", reason |-> e.message,
     bolt11 |-> None, cause |-> Some(e)]

\* raise PaymentFailedError(str(e), bolt11) from e
PaymentFailedError(e, bolt11) ==
    [type |-> "PaymentFailedError", reason |-> e.message,
     bolt11 |-> Some(bolt11), cause |-> Some(e)]

\* ------------------------------------------------------------------------
\* Bounds and inputs of the model
\* ------------------------------------------------------------------------

\* invocations of request() in one behaviour
MaxRequests == 2

\* max_sats_per_request of the configured BudgetController
PerRequestCeiling == 2

\* max_sats_per_hour of the configured BudgetController
PerHourCeiling == 3

\* max_sats_per_day of the configured BudgetController
PerDayCeiling == 3

\* max_size of the CredentialCache
CacheSize == 1

\* the tasks (threads or coroutines) that may call request()
Tasks == {1, 2}

\* the task of the sequential specification
SeqTasks == {1}

\* the instants time.time() takes: a start, one just past the hour window
\* (and the default time to live) and one just past the day window
Times == {0, HOUR + 1, DAY + 1}

Ln(digits, mult) == <<"l", "n", "b", "c">> \o digits \o mult \o <<"1", "x">>

\* "lnbc1x": no amount (an any-amount invoice)
InvAny == Ln(<<>>, <<>>)

\* "lnbc5n1x": 0.5 sat, truncated to 0
Inv0 == Ln(<<"5">>, <<"n">>)

\* "lnbc10n1x": 1 sat
Inv1 == Ln(<<"1", "0">>, <<"n">>)

\* "LNBC20N1x": 2 sat
Inv2 == <<"L", "N", "B", "C", "2", "0", "N", "1", "x">>

\* "lnbc30000p1x": 3 sat
Inv3 == Ln(<<"3", "0", "0", "0", "0">>, <<"p">>)

M1 == <<"M", "1">>

M2 == <<"M", "2">>

\* L402 macaroon="<mac>", invoice="<inv>"
QuotedHeader(mac, inv) ==
    <<"L", "4", "0", "2", " ">> \o KeyMacaroon \o <<Quote>> \o mac
    \o <<Quote, ",", " ">> \o KeyInvoice \o <<Quote>> \o inv \o <<Quote>>

\* lsat macaroon=<mac>, invoice=<inv>
BareHeader(mac, inv) ==
    <<"l", "s", "a", "t", " ">> \o KeyMacaroon \o mac
    \o <<",", " ">> \o KeyInvoice \o inv

\* Bearer x: another scheme's challenge
BearerHeader == <<"B", "e", "a", "r", "e", "r", " ", "x">>

HdrName == <<"W","W","W","-","A","u","t","h","e","n","t","i","c","a","t","e">>

Response(status, hdrs) == [status_code |-> status, headers |-> hdrs]

Challenge402(value) == Response(402, <<<<HdrName, value>>>>)

\* what the transport may answer
Responses ==
    {Response(200, <<<<HdrName, QuotedHeader(M1, Inv1)>>>>),
     Response(402, <<>>),
     Challenge402(<<>>),
     Challenge402(BearerHeader),
     Challenge402(QuotedHeader(<<" ">>, Inv1)),
     Challenge402(QuotedHeader(M1, InvAny)),
     Challenge402(QuotedHeader(M1, Inv0)),
     Response(402, <<<<WWWAuthenticate, BareHeader(M2, Inv1)>>>>),
     Challenge402(QuotedHeader(M2, Inv2)),
     Challenge402(QuotedHeader(M1, Inv3))}

\* what request() reads off an answer: the challenge found in its headers
\* and, when there is one, extract_amount_sats(challenge.invoice)
Reading(response, found) ==
    <<response, found,
      IF found = None THEN None ELSE extract_amount_sats(Val(found).invoice)>>

\* the readings of the answers, tabulated
Parsed ==
    {Reading(response, find_l402_challenge(response.headers)) :
        response \in Responses}

\* find_l402_challenge(dict(response.headers))
FoundIn(response) == (CHOOSE p \in Parsed : p[1] = response)[2]

\* extract_amount_sats(challenge.invoice) for the challenge of response
AmountIn(response) == (CHOOSE p \in Parsed : p[1] = response)[3]

\* what the transport may answer to the retry: success, another challenge,
\* a 402 without one
RetryResponses ==
    {Response(200, <<>>),
     Response(402, <<>>),
     Challenge402(QuotedHeader(M1, Inv0))}

AuthName == <<"A","u","t","h","o","r","i","z","a","t","i","o","n">>

\* url is what urlparse(url) splits it into; headers is kwargs["headers"]
Requests ==
    {[netloc |-> <<"a">>, path |-> <<"", "api", "v1", "x">>, headers |-> <<>>],
     [netloc |-> <<"A">>, path |-> <<"", "api", "v1", "y">>,
      headers |-> <<<<AuthName, <<"B">>>>>>],
     [netloc |-> <<"b">>, path |-> <<"", "api">>, headers |-> <<>>]}

\* the preimage a wallet returns
Preimages == {<<"P">>}

\* what a wallet's pay_invoice raises: one of this package's errors, or not
WalletErrors ==
    {[type |-> "PaymentFailedError", message |-> "declined"],
     [type |-> "TimeoutError", message |-> "timed out"]}

\* the values given for the budget argument of L402Client()
Budgets ==
    {None,
     Some([max_sats_per_request |-> PerRequestCeiling,
           max_sats_per_hour |-> PerHourCeiling,
           max_sats_per_day |-> PerDayCeiling,
           allowed_domains |-> None, payments |-> <<>>]),
     Some([max_sats_per_request |-> PerRequestCeiling,
           max_sats_per_hour |-> PerHourCeiling,
           max_sats_per_day |-> PerDayCeiling,
           allowed_domains |-> Some({<<"A">>}), payments |-> <<>>])}

\* ------------------------------------------------------------------------
\* client.py: the state of one client and of the invocations of request()
\* ------------------------------------------------------------------------

VARIABLES
    now,           \* time.time()
    _wallet,       \* self._wallet: None until given or auto-detected
    _budget,       \* self._budget: None or Some(BudgetController)
    _cache,        \* self._cache: [max_size, default_ttl, entries]
    spending_log,  \* self.spending_log._records
    nreq,          \* invocations of request() begun so far
    pc,            \* per task: "idle", "send", "pay", "retry" or "done"
    req,           \* per task: the url and kwargs of the invocation
    headers,       \* per task: the local headers of the invocation
    challenge,     \* per task: the local challenge (None before the parse)
    amount_sats,   \* per task: the local amount_sats
    outcome,       \* per task: None, or what request() returned or raised
    trace,         \* per task: the calls the invocation has made, in order
    start          \* per task: the client's state when the invocation began

vars == <<now, _wallet, _budget, _cache, spending_log, nreq, pc, req, headers,
          challenge, amount_sats, outcome, trace, start>>

\* headers[name] = value on a dict given as its list of items
DictSet(d, name, value) ==
    IF \E i \in 1..Len(d) : d[i][1] = name
    THEN [i \in 1..Len(d) |-> IF d[i][1] = name THEN <<name, value>> ELSE d[i]]
    ELSE Append(d, <<name, value>>)

\* urlparse(url).hostname or "": the host, lower-cased
Hostname(r) == lower(r.netloc)

Returned(response) == Some([kind |-> "return", response |-> response])

Raised(error) == Some([kind |-> "raise", error |-> error])

\* the calls an invocation makes, as entries of trace
CacheGetCall(hit) == <<"cache_get", hit>>

SendCall(hdrs, response) == <<"send", [headers |-> hdrs, response |-> response]>>

CheckCall(amount, error) == <<"check", [amount |-> amount, error |-> error]>>

GetWalletCall(found) == <<"get_wallet", found>>

PayCall(invoice, preimage, error) ==
    <<"pay", [invoice |-> invoice, preimage |-> preimage, error |-> error]>>

RecordPaymentCall(amount) == <<"record_payment", amount>>

LedgerCall(entry) == <<"ledger", entry>>

CachePutCall(macaroon, preimage) ==
    <<"cache_put", [macaroon |-> macaroon, preimage |-> preimage]>>

\* the budget argument of L402Client(): left out (the default, Ellipsis) or
\* given, as None or as a BudgetController
BudgetArguments ==
    {[given |-> FALSE, value |-> None]}
        \cup {[given |-> TRUE, value |-> b] : b \in Budgets}

\* Mutation of the constructor's default: budget or BudgetController()
L402Client_budget_OrDefault(arg) ==
    IF ~arg.given \/ arg.value = None THEN Some(BudgetController_new)
    ELSE arg.value

\* self._budget = BudgetController() if budget is ... else budget
L402Client_budget(arg) ==
    IF ~arg.given THEN Some(BudgetController_new) ELSE arg.value

Init ==
    /\ now = 0
    /\ _wallet = None
    /\ _budget \in {L402Client_budget(arg) : arg \in BudgetArguments}
    /\ _cache = [max_size |-> CacheSize, default_ttl |-> Some(DEFAULT_TTL),
                 entries |-> <<>>]
    /\ spending_log = <<>>
    /\ nreq = 0
    /\ pc = [t \in Tasks |-> "idle"]
    /\ req = [t \in Tasks |-> None]
    /\ headers = [t \in Tasks |-> <<>>]
    /\ challenge = [t \in Tasks |-> None]
    /\ amount_sats = [t \in Tasks |-> None]
    /\ outcome = [t \in Tasks |-> None]
    /\ trace = [t \in Tasks |-> <<>>]
    /\ start = [t \in Tasks |-> None]

\* _apply_cached_credential(url, headers) when time.time() is at: the
\* cache and the headers afterwards, and whether a credential was found
_apply_cached_credential(cache, r, hdrs, at) ==
    LET g == CredentialCache_get(cache, Hostname(r), r.path, at)
    IN  [cache |-> g.cache,
         headers |-> IF g.cred # None
                     THEN DictSet(hdrs, AuthName, authorization_header(Val(g.cred)))
                     ELSE hdrs,
         hit |-> g.cred # None]

\* request(), up to the first client.request call
Begin(t, r) ==
    /\ pc[t] \in {"idle", "done"}
    /\ nreq < MaxRequests
    /\ LET a == _apply_cached_credential(_cache, r, r.headers, now)
       IN  /\ _cache' = a.cache
           /\ headers' = [headers EXCEPT ![t] = a.headers]
           /\ trace' = [trace EXCEPT ![t] = <<CacheGetCall(a.hit)>>]
    /\ nreq' = nreq + 1
    /\ pc' = [pc EXCEPT ![t] = "send"]
    /\ req' = [req EXCEPT ![t] = Some(r)]
    /\ challenge' = [challenge EXCEPT ![t] = None]
    /\ amount_sats' = [amount_sats EXCEPT ![t] = None]
    /\ outcome' = [outcome EXCEPT ![t] = None]
    /\ start' = [start EXCEPT ![t] =
           Some([cache |-> _cache, budget |-> _budget, log |-> spending_log,
                 wallet |-> _wallet, now |-> now])]
    /\ UNCHANGED <<now, _wallet, _budget, spending_log>>

\* the invocation of task t ends: request() returns or raises
Finish(t, result, calls) ==
    /\ pc' = [pc EXCEPT ![t] = "done"]
    /\ outcome' = [outcome EXCEPT ![t] = result]
    /\ trace' = [trace EXCEPT ![t] = trace[t] \o calls]

\* Mutation of ChallengeOf: the headers are searched whatever the status
ChallengeOf_AnyStatus(response) == FoundIn(response)

\* The challenge request() goes on with after the first response: None
\* when the status is not 402 or no challenge is found (the response is
\* returned as it is)
ChallengeOf(response) ==
    IF response.status_code # 402 THEN None ELSE FoundIn(response)

\* if self._budget and amount_sats is not None: self._budget.check(...)
\* [budget |-> self._budget afterwards, error |-> what check raised,
\*  called |-> whether check was called]
ClientCheck(budget, amount, domain, at) ==
    IF budget # None /\ amount # None
    THEN LET c == BudgetController_check(Val(budget), Val(amount), Some(domain), at)
         IN  [budget |-> Some(c.budget), error |-> c.error, called |-> TRUE]
    ELSE [budget |-> budget, error |-> None, called |-> FALSE]

\* request() from the budget check to the wallet call, for the challenge
\* found in the first response and the amount of its invoice; calls are
\* the calls made so far and chk is what the budget check did
Challenged(t, calls, found, amount, chk, wallet) ==
    /\ challenge' = [challenge EXCEPT ![t] = found]
    /\ amount_sats' = [amount_sats EXCEPT ![t] = amount]
    /\ _budget' = chk.budget
    /\ IF chk.error # None
       THEN /\ Finish(t, Raised(Val(chk.error)),
                      calls \o <<CheckCall(Val(amount), chk.error)>>)
            /\ UNCHANGED _wallet
       ELSE IF wallet = None
       THEN /\ Finish(t, Raised([type |-> "NoWalletError"]),
                      calls \o (IF chk.called
                                THEN <<CheckCall(Val(amount), chk.error)>>
                                ELSE <<>>)
                            \o <<GetWalletCall(FALSE)>>)
            /\ UNCHANGED _wallet
       ELSE /\ _wallet' = wallet
            /\ pc' = [pc EXCEPT ![t] = "pay"]
            /\ trace' = [trace EXCEPT ![t] =
                   @ \o calls \o (IF chk.called
                                  THEN <<CheckCall(Val(amount), chk.error)>>
                                  ELSE <<>>)
                     \o <<GetWalletCall(TRUE)>>]
            /\ UNCHANGED outcome

\* request() after the first response, for the challenge it goes on with
\* (None: the response is returned) and the amount of its invoice
AfterFirstResponse(t, response, found, amount, detected) ==
    IF found = None
    THEN /\ Finish(t, Returned(response),
                   <<SendCall(headers[t], Some(response))>>)
         /\ UNCHANGED <<_budget, _wallet, challenge, amount_sats>>
    ELSE Challenged(t, <<SendCall(headers[t], Some(response))>>, found, amount,
                    ClientCheck(_budget, amount, Hostname(Val(req[t])), now),
                    IF _wallet = None THEN detected ELSE _wallet)

\* the first client.request returns response; request() runs on to the
\* wallet call.  detected is what auto_detect_wallet() finds if asked.
FirstSend(t, response, detected) ==
    /\ pc[t] = "send"
    /\ AfterFirstResponse(t, response, ChallengeOf(response), AmountIn(response), detected)
    /\ UNCHANGED <<now, _cache, spending_log, nreq, req, headers, start>>

\* a client.request call (the first one or the retry) raises
TransportError(t) ==
    /\ pc[t] \in {"send", "retry"}
    /\ Finish(t, Raised([type |-> "ConnectError"]),
              <<SendCall(headers[t], None)>>)
    /\ UNCHANGED <<now, _wallet, _budget, _cache, spending_log, nreq, req,
                   headers, challenge, amount_sats, start>>

\* if amount_sats: (neither None nor 0)
Truthy(amount) == amount # None /\ Val(amount) # 0

\* the error the except clause of request() raises for the wallet's error e
PayError(e, invoice) ==
    IF IsL402Error(e) THEN e ELSE PaymentFailedError(e, invoice)

\* Mutation of PayFailed: the failed payment is charged to the budget
PayFailed_Charged(t, e) ==
    /\ pc[t] = "pay"
    /\ LET r == Val(req[t])
           c == Val(challenge[t])
           amount == amount_sats[t]
           log == SpendingLog_record(spending_log, Hostname(r), r.path,
                                     Val(amount), <<>>, FALSE, now)
       IN  /\ spending_log' = IF Truthy(amount) THEN log ELSE spending_log
           /\ _budget' = IF Truthy(amount) /\ _budget # None
                         THEN Some(record_payment(Val(_budget), Val(amount), now))
                         ELSE _budget
           /\ Finish(t, Raised(PayError(e, c.invoice)),
                     <<PayCall(c.invoice, None, Some(e))>>
                     \o (IF Truthy(amount) THEN <<LedgerCall(log[Len(log)])>>
                         ELSE <<>>))
    /\ UNCHANGED <<now, _wallet, _cache, nreq, req, headers, challenge,
                   amount_sats, start>>

\* the wallet call raises e: the except clause of request()
PayFailed(t, e) ==
    /\ pc[t] = "pay"
    /\ LET r == Val(req[t])
           c == Val(challenge[t])
           amount == amount_sats[t]
           log == SpendingLog_record(spending_log, Hostname(r), r.path,
                                     Val(amount), <<>>, FALSE, now)
       IN  /\ spending_log' = IF Truthy(amount) THEN log ELSE spending_log
           /\ Finish(t, Raised(PayError(e, c.invoice)),
                     <<PayCall(c.invoice, None, Some(e))>>
                     \o (IF Truthy(amount) THEN <<LedgerCall(log[Len(log)])>>
                         ELSE <<>>))
    /\ UNCHANGED <<now, _wallet, _budget, _cache, nreq, req, headers, challenge,
                   amount_sats, start>>

\* f"L402 {challenge.macaroon}:{preimage}"
RetryAuthorization(macaroon, preimage) ==
    <<"L", "4", "0", "2", " ">> \o macaroon \o <<":">> \o preimage

\* Mutation of PayReturned: the credential is cached only with the
\* payment's accounting, when an amount is known
PayReturned_CacheAccounted(t, preimage) ==
    /\ pc[t] = "pay"
    /\ LET r == Val(req[t])
           c == Val(challenge[t])
           amount == amount_sats[t]
           domain == Hostname(r)
           recorded == Truthy(amount) /\ _budget # None
           log == SpendingLog_record(spending_log, domain, r.path,
                                     Val(amount), preimage, TRUE, now)
       IN  /\ _budget' = IF recorded
                         THEN Some(record_payment(Val(_budget), Val(amount), now))
                         ELSE _budget
           /\ spending_log' = IF Truthy(amount) THEN log ELSE spending_log
           /\ _cache' = IF Truthy(amount)
                        THEN CredentialCache_put(_cache, domain, r.path,
                                                 c.macaroon, preimage, None, now)
                        ELSE _cache
           /\ headers' = [headers EXCEPT ![t] =
                  DictSet(@, AuthName, RetryAuthorization(c.macaroon, preimage))]
           /\ trace' = [trace EXCEPT ![t] =
                  @ \o <<PayCall(c.invoice, Some(preimage), None)>>
                    \o (IF recorded THEN <<RecordPaymentCall(Val(amount))>>
                        ELSE <<>>)
                    \o (IF Truthy(amount)
                        THEN <<LedgerCall(log[Len(log)]),
                               CachePutCall(c.macaroon, preimage)>>
                        ELSE <<>>)]
    /\ pc' = [pc EXCEPT ![t] = "retry"]
    /\ UNCHANGED <<now, _wallet, nreq, req, challenge, amount_sats, outcome, start>>

\* the wallet call returns preimage: request() runs on to the retry
PayReturned(t, preimage) ==
    /\ pc[t] = "pay"
    /\ LET r == Val(req[t])
           c == Val(challenge[t])
           amount == amount_sats[t]
           domain == Hostname(r)
           recorded == Truthy(amount) /\ _budget # None
           log == SpendingLog_record(spending_log, domain, r.path,
                                     Val(amount), preimage, TRUE, now)
       IN  /\ _budget' = IF recorded
                         THEN Some(record_payment(Val(_budget), Val(amount), now))
                         ELSE _budget
           /\ spending_log' = IF Truthy(amount) THEN log ELSE spending_log
           /\ _cache' = CredentialCache_put(_cache, domain, r.path, c.macaroon,
                                            preimage, None, now)
           /\ headers' = [headers EXCEPT ![t] =
                  DictSet(@, AuthName, RetryAuthorization(c.macaroon, preimage))]
           /\ trace' = [trace EXCEPT ![t] =
                  @ \o <<PayCall(c.invoice, Some(preimage), None)>>
                    \o (IF recorded THEN <<RecordPaymentCall(Val(amount))>>
                        ELSE <<>>)
                    \o (IF Truthy(amount) THEN <<LedgerCall(log[Len(log)])>>
                        ELSE <<>>)
                    \o <<CachePutCall(c.macaroon, preimage)>>]
    /\ pc' = [pc EXCEPT ![t] = "retry"]
    /\ UNCHANGED <<now, _wallet, nreq, req, challenge, amount_sats, outcome, start>>

\* Mutation of RetrySend: a retry answered by another challenge goes back
\* to the wallet
RetrySend_PayAgain(t, retry_response) ==
    /\ pc[t] = "retry"
    /\ IF retry_response.status_code = 402
          /\ find_l402_challenge(retry_response.headers) # None
       THEN /\ pc' = [pc EXCEPT ![t] = "pay"]
            /\ challenge' = [challenge EXCEPT ![t] =
                   find_l402_challenge(retry_response.headers)]
            /\ trace' = [trace EXCEPT ![t] =
                   Append(@, SendCall(headers[t], Some(retry_response)))]
            /\ UNCHANGED outcome
       ELSE /\ Finish(t, Returned(retry_response),
                      <<SendCall(headers[t], Some(retry_response))>>)
            /\ UNCHANGED challenge
    /\ UNCHANGED <<now, _wallet, _budget, _cache, spending_log, nreq, req,
                   headers, amount_sats, start>>

\* the retry returns retry_response, which request() returns
RetrySend(t, retry_response) ==
    /\ pc[t] = "retry"
    /\ Finish(t, Returned(retry_response),
              <<SendCall(headers[t], Some(retry_response))>>)
    /\ UNCHANGED <<now, _wallet, _budget, _cache, spending_log, nreq, req,
                   headers, challenge, amount_sats, start>>

\* time passes.  The retry reads no clock: time that passes during it is
\* time that passes after it.
Tick ==
    /\ \A t \in Tasks : pc[t] # "retry"
    /\ \E later \in Times : later > now /\ now' = later
    /\ UNCHANGED <<_wallet, _budget, _cache, spending_log, nreq, pc, req,
                   headers, challenge, amount_sats, outcome, trace, start>>

\* one client used by one task at a time
Next ==
    \/ \E t \in SeqTasks, r \in Requests : Begin(t, r)
    \/ \E t \in SeqTasks, response \in Responses,
          detected \in {None, Some("wallet")} : FirstSend(t, response, detected)
    \/ \E t \in SeqTasks : TransportError(t)
    \/ \E t \in SeqTasks, e \in WalletErrors : PayFailed(t, e)
    \/ \E t \in SeqTasks, preimage \in Preimages : PayReturned(t, preimage)
    \/ \E t \in SeqTasks, response \in RetryResponses : RetrySend(t, response)
    \/ Tick

Spec == Init /\ [][Next]_vars

\* ------------------------------------------------------------------------
\* A CredentialCache used on its own: get, put and clear called in any
\* order while time passes.  trace[1] lists the calls made, each with its
\* arguments, the instant of the call, the entries it found and, for get,
\* what it returned.
\* ------------------------------------------------------------------------

\* calls made on the cache in one behaviour
MaxOps == 4

\* the largest max_size a cache is constructed with
MaxCapacity == 2

\* CredentialCache(max_size, default_ttl): the arguments of the constructor
CacheConfigs ==
    {[max_size |-> n, default_ttl |-> ttl, entries |-> <<>>] :
        n \in 0..MaxCapacity, ttl \in {None, Some(0), Some(DEFAULT_TTL)}}

\* the instants of the calls: the construction and one default_ttl later
CacheTimes == {0, DEFAULT_TTL}

\* the (domain, path) arguments of get: the first is another spelling of
\* the key Puts' first two have
Lookups ==
    {[domain |-> <<"A">>, path |-> <<"", "", "api", "v1", "y", "">>],
     [domain |-> <<"a">>, path |-> <<"", "api", "v2">>]}

\* the arguments of put
Puts ==
    {[domain |-> <<"a">>, path |-> <<"", "api", "v1", "x">>,
      macaroon |-> M1, preimage |-> <<"P">>, expires_at |-> None],
     [domain |-> <<"a">>, path |-> <<"", "api", "v1", "x">>,
      macaroon |-> M2, preimage |-> <<"Q">>, expires_at |-> Some(DEFAULT_TTL)],
     [domain |-> <<"a">>, path |-> <<"", "api", "v2">>,
      macaroon |-> M1, preimage |-> <<"P">>, expires_at |-> None],
     [domain |-> <<"b">>, path |-> <<"", "api">>,
      macaroon |-> M1, preimage |-> <<"P">>, expires_at |-> None]}

CacheInit ==
    /\ now = 0
    /\ _wallet = None
    /\ _budget = None
    /\ _cache \in CacheConfigs
    /\ spending_log = <<>>
    /\ nreq = 0
    /\ pc = [t \in Tasks |-> "idle"]
    /\ req = [t \in Tasks |-> None]
    /\ headers = [t \in Tasks |-> <<>>]
    /\ challenge = [t \in Tasks |-> None]
    /\ amount_sats = [t \in Tasks |-> None]
    /\ outcome = [t \in Tasks |-> None]
    /\ trace = [t \in Tasks |-> <<>>]
    /\ start = [t \in Tasks |-> None]

\* what the calls on the cache leave alone
CacheFrame ==
    UNCHANGED <<_wallet, _budget, spending_log, nreq, pc, req, headers,
                challenge, amount_sats, outcome, start>>

\* cache.get(look.domain, look.path)
CacheGet(look) ==
    /\ Len(trace[1]) < MaxOps
    /\ LET got == CredentialCache_get(_cache, look.domain, look.path, now)
       IN  /\ _cache' = got.cache
           /\ trace' = [trace EXCEPT ![1] =
                  Append(@, <<"get", [domain |-> look.domain, path |-> look.path,
                                       at |-> now, before |-> _cache.entries,
                                       cred |-> got.cred]>>)]
    /\ UNCHANGED now
    /\ CacheFrame

\* cache.put(args.domain, args.path, args.macaroon, args.preimage,
\*           args.expires_at)
CachePut(args) ==
    /\ Len(trace[1]) < MaxOps
    /\ _cache' = CredentialCache_put(_cache, args.domain, args.path,
                                     args.macaroon, args.preimage,
                                     args.expires_at, now)
    /\ trace' = [trace EXCEPT ![1] =
           Append(@, <<"put", [domain |-> args.domain, path |-> args.path,
                                macaroon |-> args.macaroon,
                                preimage |-> args.preimage,
                                expires_at |-> args.expires_at,
                                at |-> now, before |-> _cache.entries]>>)]
    /\ UNCHANGED now
    /\ CacheFrame

\* cache.clear()
CacheClear ==
    /\ Len(trace[1]) < MaxOps
    /\ _cache' = CredentialCache_clear(_cache)
    /\ trace' = [trace EXCEPT ![1] =
           Append(@, <<"clear", [at |-> now, before |-> _cache.entries]>>)]
    /\ UNCHANGED now
    /\ CacheFrame

\* time.time() advances between two calls
CacheTick ==
    /\ \E later \in CacheTimes : later > now /\ now' = later
    /\ UNCHANGED <<_cache, trace>>
    /\ CacheFrame

CacheNext ==
    \/ \E look \in Lookups : CacheGet(look)
    \/ \E args \in Puts : CachePut(args)
    \/ CacheClear
    \/ CacheTick

CacheSpec == CacheInit /\ [][CacheNext]_vars

\* ------------------------------------------------------------------------
\* _cache_key on its own: each task holds a (domain, path) pair in req and
\* computes its key into outcome.
\* ------------------------------------------------------------------------

\* domain arguments: lower and upper case, and with surrounding blanks
Origins == {<<"a">>, <<"A">>, <<"b">>, <<" ", "A">>, <<"a", " ">>}

\* path arguments, as split("/") yields them: "", "/", "/api", "/api/v1",
\* "/api/v1/x", "/api/v1/y", "//api//v1/", "/api/v2/x", "api/v1" and "/v1/api"
Paths ==
    {<<"">>, <<"", "">>, <<"", "api">>, <<"", "api", "v1">>,
     <<"", "api", "v1", "x">>, <<"", "api", "v1", "y">>,
     <<"", "", "api", "", "v1", "">>, <<"", "api", "v2", "x">>,
     <<"api", "v1">>, <<"", "v1", "api">>}

KeyInit ==
    /\ now = 0
    /\ _wallet = None
    /\ _budget = None
    /\ _cache = [max_size |-> CacheSize, default_ttl |-> Some(DEFAULT_TTL),
                 entries |-> <<>>]
    /\ spending_log = <<>>
    /\ nreq = 0
    /\ pc = [t \in Tasks |-> "idle"]
    /\ req \in [Tasks -> {Some([netloc |-> o, path |-> p, headers |-> <<>>]) :
                             o \in Origins, p \in Paths}]
    /\ headers = [t \in Tasks |-> <<>>]
    /\ challenge = [t \in Tasks |-> None]
    /\ amount_sats = [t \in Tasks |-> None]
    /\ outcome = [t \in Tasks |-> None]
    /\ trace = [t \in Tasks |-> <<>>]
    /\ start = [t \in Tasks |-> None]

\* task t calls _cache_key on its pair
KeyOf(t) ==
    /\ outcome[t] = None
    /\ outcome' = [outcome EXCEPT ![t] =
           Returned(_cache_key(Val(req[t]).netloc, Val(req[t]).path))]
    /\ UNCHANGED <<now, _wallet, _budget, _cache, spending_log, nreq, pc, req,
                   headers, challenge, amount_sats, trace, start>>

KeyNext == \E t \in Tasks : KeyOf(t)

KeySpec == KeyInit /\ [][KeyNext]_vars

\* ------------------------------------------------------------------------
\* A BudgetController used on its own: check and record_payment called in
\* any order while time passes.  trace[1] holds the latest call with its
\* arguments, the instant of the call, the controller it found and, for
\* check, the error it raised.
\* ------------------------------------------------------------------------

\* payments a controller holds at the most
MaxPayments == 2

\* allowed_domains of the controller: not set, empty, or two hosts
AllowSets == {None, Some({}), Some({<<"A">>, <<"c">>})}

\* the instants of the calls: on and just past the edges of both windows
BudgetTimes == {0, HOUR, HOUR + 1, DAY, DAY + 1}

\* the domain argument of check
CheckDomains == {None, Some(<<>>), Some(<<"a">>), Some(<<"b">>)}

BudgetInit ==
    /\ now = 0
    /\ _wallet = None
    /\ \E allowed \in AllowSets :
           _budget = Some([max_sats_per_request |-> PerRequestCeiling,
                           max_sats_per_hour |-> PerHourCeiling,
                           max_sats_per_day |-> PerDayCeiling,
                           allowed_domains |-> allowed, payments |-> <<>>])
    /\ _cache = [max_size |-> CacheSize, default_ttl |-> Some(DEFAULT_TTL),
                 entries |-> <<>>]
    /\ spending_log = <<>>
    /\ nreq = 0
    /\ pc = [t \in Tasks |-> "idle"]
    /\ req = [t \in Tasks |-> None]
    /\ headers = [t \in Tasks |-> <<>>]
    /\ challenge = [t \in Tasks |-> None]
    /\ amount_sats = [t \in Tasks |-> None]
    /\ outcome = [t \in Tasks |-> None]
    /\ trace = [t \in Tasks |-> <<>>]
    /\ start = [t \in Tasks |-> None]

\* what the calls on the controller leave alone
BudgetFrame ==
    UNCHANGED <<_wallet, _cache, spending_log, nreq, pc, req, headers,
                challenge, amount_sats, outcome, start>>

\* budget.check(amount, domain)
BudgetCheck(amount, domain) ==
    /\ LET checked == BudgetController_check(Val(_budget), amount, domain, now)
       IN  /\ _budget' = Some(checked.budget)
           /\ trace' = [trace EXCEPT ![1] =
                  <<<<"check", [amount |-> amount, domain |-> domain,
                                at |-> now, before |-> Val(_budget),
                                error |-> checked.error]>>>>]
    /\ UNCHANGED now
    /\ BudgetFrame

\* budget.record_payment(amount)
BudgetRecord(amount) ==
    /\ Len(Val(_budget).payments) < MaxPayments
    /\ _budget' = Some(record_payment(Val(_budget), amount, now))
    /\ trace' = [trace EXCEPT ![1] =
           <<<<"record_payment", [amount |-> amount, at |-> now,
                                  before |-> Val(_budget)]>>>>]
    /\ UNCHANGED now
    /\ BudgetFrame

\* time.time() advances between two calls
BudgetTick ==
    /\ \E later \in BudgetTimes : later > now /\ now' = later
    /\ UNCHANGED <<_budget, trace>>
    /\ BudgetFrame

BudgetNext ==
    \/ \E amount \in 0..(PerRequestCeiling + 1), domain \in CheckDomains :
           BudgetCheck(amount, domain)
    \/ \E amount \in 1..PerRequestCeiling : BudgetRecord(amount)
    \/ BudgetTick

BudgetSpec == BudgetInit /\ [][BudgetNext]_vars

\* ------------------------------------------------------------------------
\* One client with a budget whose callers pass headers of their own:
\* request() as above, on two urls of one cache key.
\* ------------------------------------------------------------------------

\* the header name as a caller may spell it
LowerAuthName == <<"a","u","t","h","o","r","i","z","a","t","i","o","n">>

\* url and kwargs["headers"] of the callers
CallerRequests ==
    {[netloc |-> <<"a">>, path |-> <<"", "api", "v1", "x">>,
      headers |-> <<<<LowerAuthName, <<"B">>>>>>],
     [netloc |-> <<"a">>, path |-> <<"", "api", "v1", "y">>,
      headers |-> <<<<AuthName, <<"B">>>>>>]}

\* what the transport answers first: success, or a challenge with or
\* without an amount (both are in Responses)
CallerResponses ==
    {Response(200, <<<<HdrName, QuotedHeader(M1, Inv1)>>>>),
     Challenge402(QuotedHeader(M1, InvAny)),
     Challenge402(QuotedHeader(M2, Inv2))}

\* L402Client(budget=BudgetController(...)) without an allow-list
CallerInit ==
    /\ Init
    /\ _budget # None
    /\ Val(_budget).max_sats_per_request = PerRequestCeiling
    /\ Val(_budget).allowed_domains = None

CallerNext ==
    \/ \E t \in SeqTasks, r \in CallerRequests : Begin(t, r)
    \/ \E t \in SeqTasks, response \in CallerResponses,
          detected \in {None, Some("wallet")} : FirstSend(t, response, detected)
    \/ \E t \in SeqTasks : TransportError(t)
    \/ \E t \in SeqTasks, e \in WalletErrors : PayFailed(t, e)
    \/ \E t \in SeqTasks, preimage \in Preimages : PayReturned(t, preimage)
    \/ \E t \in SeqTasks, response \in RetryResponses : RetrySend(t, response)
    \/ Tick

CallerSpec == CallerInit /\ [][CallerNext]_vars

\* ------------------------------------------------------------------------
\* client.py: AsyncL402Client.request().  A coroutine gives up control at
\* its three awaits only (the two client.request calls and the wallet
\* call), so each action below runs from one await to the next without
\* another task running in between.  The actions say nothing of start,
\* which the specifications that use them set.
\* ------------------------------------------------------------------------

\* request() up to the first await: the headers are copied and the cached
\* credential, if any, is applied
AsyncBegin(t, r) ==
    /\ pc[t] \in {"idle", "done"}
    /\ nreq < MaxRequests
    /\ LET g == CredentialCache_get(_cache, lower(r.netloc), r.path, now)
       IN  /\ _cache' = g.cache
           /\ headers' = [headers EXCEPT ![t] =
                  IF g.cred = None THEN r.headers
                  ELSE DictSet(r.headers, AuthName,
                               authorization_header(Val(g.cred)))]
           /\ trace' = [trace EXCEPT ![t] = <<CacheGetCall(g.cred # None)>>]
    /\ nreq' = nreq + 1
    /\ req' = [req EXCEPT ![t] = Some(r)]
    /\ challenge' = [challenge EXCEPT ![t] = None]
    /\ amount_sats' = [amount_sats EXCEPT ![t] = None]
    /\ outcome' = [outcome EXCEPT ![t] = None]
    /\ pc' = [pc EXCEPT ![t] = "send"]
    /\ UNCHANGED <<now, _wallet, _budget, spending_log>>

\* the first await returns response: request() runs on to the second
\* await, the wallet call, or ends before it.  detected is what
\* auto_detect_wallet() finds if asked.
AsyncFirstSend(t, response, detected) ==
    /\ pc[t] = "send"
    /\ LET sent == SendCall(headers[t], Some(response))
           found == IF response.status_code # 402 THEN None
                    ELSE FoundIn(response)
           amount == AmountIn(response)
           checked == _budget # None /\ amount # None
           c == BudgetController_check(Val(_budget), Val(amount),
                                       Some(lower(Val(req[t]).netloc)), now)
           wallet == IF _wallet = None THEN detected ELSE _wallet
       IN  IF found = None
           THEN /\ pc' = [pc EXCEPT ![t] = "done"]
                /\ outcome' = [outcome EXCEPT ![t] = Returned(response)]
                /\ trace' = [trace EXCEPT ![t] = Append(@, sent)]
                /\ UNCHANGED <<_budget, _wallet, challenge, amount_sats>>
           ELSE /\ challenge' = [challenge EXCEPT ![t] = found]
                /\ amount_sats' = [amount_sats EXCEPT ![t] = amount]
                /\ _budget' = IF checked THEN Some(c.budget) ELSE _budget
                /\ IF checked /\ c.error # None
                   THEN /\ pc' = [pc EXCEPT ![t] = "done"]
                        /\ outcome' = [outcome EXCEPT ![t] = Raised(Val(c.error))]
                        /\ trace' = [trace EXCEPT ![t] =
                               @ \o <<sent, CheckCall(Val(amount), c.error)>>]
                        /\ UNCHANGED _wallet
                   ELSE LET calls == IF checked
                                     THEN <<sent, CheckCall(Val(amount), None)>>
                                     ELSE <<sent>>
                        IN  IF wallet = None
                            THEN /\ pc' = [pc EXCEPT ![t] = "done"]
                                 /\ outcome' = [outcome EXCEPT ![t] =
                                        Raised([type |-> "NoWalletError"])]
                                 /\ trace' = [trace EXCEPT ![t] =
                                        @ \o calls \o <<GetWalletCall(FALSE)>>]
                                 /\ UNCHANGED _wallet
                            ELSE /\ pc' = [pc EXCEPT ![t] = "pay"]
                                 /\ _wallet' = wallet
                                 /\ trace' = [trace EXCEPT ![t] =
                                        @ \o calls \o <<GetWalletCall(TRUE)>>]
                                 /\ UNCHANGED outcome
    /\ UNCHANGED <<now, _cache, spending_log, nreq, req, headers>>

\* an await of client.request (the first one or the retry) raises
AsyncTransportError(t) ==
    /\ pc[t] \in {"send", "retry"}
    /\ pc' = [pc EXCEPT ![t] = "done"]
    /\ outcome' = [outcome EXCEPT ![t] = Raised([type |-> "ConnectError"])]
    /\ trace' = [trace EXCEPT ![t] = Append(@, SendCall(headers[t], None))]
    /\ UNCHANGED <<now, _wallet, _budget, _cache, spending_log, nreq, req,
                   headers, challenge, amount_sats>>

\* await wallet.pay_invoice(...) raises e
AsyncPayFailed(t, e) ==
    /\ pc[t] = "pay"
    /\ LET r == Val(req[t])
           invoice == Val(challenge[t]).invoice
           logged == amount_sats[t] # None /\ Val(amount_sats[t]) # 0
           log == SpendingLog_record(spending_log, lower(r.netloc), r.path,
                                     Val(amount_sats[t]), <<>>, FALSE, now)
       IN  /\ spending_log' = IF logged THEN log ELSE spending_log
           /\ trace' = [trace EXCEPT ![t] =
                  IF logged
                  THEN @ \o <<PayCall(invoice, None, Some(e)),
                              LedgerCall(log[Len(log)])>>
                  ELSE Append(@, PayCall(invoice, None, Some(e)))]
           /\ outcome' = [outcome EXCEPT ![t] =
                  Raised(IF IsL402Error(e) THEN e
                         ELSE PaymentFailedError(e, invoice))]
    /\ pc' = [pc EXCEPT ![t] = "done"]
    /\ UNCHANGED <<now, _wallet, _budget, _cache, nreq, req, headers, challenge,
                   amount_sats>>

\* await wallet.pay_invoice(...) returns preimage: request() runs on to
\* the third await, the retry
AsyncPayReturned(t, preimage) ==
    /\ pc[t] = "pay"
    /\ LET r == Val(req[t])
           domain == lower(r.netloc)
           macaroon == Val(challenge[t]).macaroon
           paid == PayCall(Val(challenge[t]).invoice, Some(preimage), None)
           stored == CachePutCall(macaroon, preimage)
           logged == amount_sats[t] # None /\ Val(amount_sats[t]) # 0
           log == SpendingLog_record(spending_log, domain, r.path,
                                     Val(amount_sats[t]), preimage, TRUE, now)
       IN  /\ IF logged
              THEN /\ _budget' =
                          IF _budget # None
                          THEN Some(record_payment(Val(_budget),
                                                   Val(amount_sats[t]), now))
                          ELSE _budget
                   /\ spending_log' = log
                   /\ trace' = [trace EXCEPT ![t] =
                          IF _budget # None
                          THEN @ \o <<paid, RecordPaymentCall(Val(amount_sats[t])),
                                      LedgerCall(log[Len(log)]), stored>>
                          ELSE @ \o <<paid, LedgerCall(log[Len(log)]), stored>>]
              ELSE /\ trace' = [trace EXCEPT ![t] = @ \o <<paid, stored>>]
                   /\ UNCHANGED <<_budget, spending_log>>
           /\ _cache' = CredentialCache_put(_cache, domain, r.path, macaroon,
                                            preimage, None, now)
           /\ headers' = [headers EXCEPT ![t] =
                  DictSet(@, AuthName,
                          <<"L", "4", "0", "2", " ">> \o macaroon \o <<":">>
                              \o preimage)]
    /\ pc' = [pc EXCEPT ![t] = "retry"]
    /\ UNCHANGED <<now, _wallet, nreq, req, challenge, amount_sats, outcome>>

\* the third await returns retry_response, which request() returns
AsyncRetrySend(t, retry_response) ==
    /\ pc[t] = "retry"
    /\ pc' = [pc EXCEPT ![t] = "done"]
    /\ outcome' = [outcome EXCEPT ![t] = Returned(retry_response)]
    /\ trace' = [trace EXCEPT ![t] =
           Append(@, SendCall(headers[t], Some(retry_response)))]
    /\ UNCHANGED <<now, _wallet, _budget, _cache, spending_log, nreq, req,
                   headers, challenge, amount_sats>>

\* ------------------------------------------------------------------------
\* One AsyncL402Client used by one task at a time, given what CallerSpec
\* gives the synchronous client and constructed with any budget argument.
\* start[t] is the state in which the invocation began, as in Spec.
\* ------------------------------------------------------------------------

Entered(t) ==
    start' = [start EXCEPT ![t] =
        Some([cache |-> _cache, budget |-> _budget, log |-> spending_log,
              wallet |-> _wallet, now |-> now])]

AsyncNext ==
    \/ \E t \in SeqTasks, r \in CallerRequests : AsyncBegin(t, r) /\ Entered(t)
    \/ \E t \in SeqTasks, response \in CallerResponses,
          detected \in {None, Some("wallet")} :
            AsyncFirstSend(t, response, detected) /\ UNCHANGED start
    \/ \E t \in SeqTasks : AsyncTransportError(t) /\ UNCHANGED start
    \/ \E t \in SeqTasks, e \in WalletErrors :
            AsyncPayFailed(t, e) /\ UNCHANGED start
    \/ \E t \in SeqTasks, preimage \in Preimages :
            AsyncPayReturned(t, preimage) /\ UNCHANGED start
    \/ \E t \in SeqTasks, response \in RetryResponses :
            AsyncRetrySend(t, response) /\ UNCHANGED start
    \/ Tick

AsyncSpec == Init /\ [][AsyncNext]_vars

\* ------------------------------------------------------------------------
\* One AsyncL402Client shared by the tasks of Tasks, each awaiting one
\* request() (asyncio.gather): between two awaits of one task the other
\* may run any of its steps.  The client has a BudgetController without an
\* allow-list and with no payment yet.  start[t] is the payments the
\* controller held when the invocation of task t reached its budget check.
\* ------------------------------------------------------------------------

\* the url every task asks for
RaceRequest ==
    [netloc |-> <<"a">>, path |-> <<"", "api", "v1", "x">>, headers |-> <<>>]

\* what the transport answers first: success, or a challenge for 2 or for
\* 3 sats
RaceResponses ==
    {Response(200, <<<<HdrName, QuotedHeader(M1, Inv1)>>>>),
     Challenge402(QuotedHeader(M2, Inv2)),
     Challenge402(QuotedHeader(M1, Inv3))}

RaceNext ==
    \/ \E t \in Tasks :
            pc[t] = "idle" /\ AsyncBegin(t, RaceRequest) /\ UNCHANGED start
    \/ \E t \in Tasks, response \in RaceResponses :
            /\ AsyncFirstSend(t, response, Some("wallet"))
            /\ start' = [start EXCEPT ![t] = Some(Val(_budget).payments)]
    \/ \E t \in Tasks : AsyncTransportError(t) /\ UNCHANGED start
    \/ \E t \in Tasks, e \in WalletErrors :
            AsyncPayFailed(t, e) /\ UNCHANGED start
    \/ \E t \in Tasks, preimage \in Preimages :
            AsyncPayReturned(t, preimage) /\ UNCHANGED start
    \/ \E t \in Tasks : AsyncRetrySend(t, Response(200, <<>>)) /\ UNCHANGED start
    \/ Tick

RaceSpec == CallerInit /\ [][RaceNext]_vars

\* ------------------------------------------------------------------------
\* budget.py: one BudgetController called from the threads of Tasks.  The
\* class takes no lock, so a thread may be suspended between any two
\* bytecodes: between the test of _prune's while and its popleft, and
\* between two items of the generator that sum() consumes.  Single calls on
\* the deque (append, popleft, next) are indivisible.
\*   nreq      the deque's mutation count, which its iterators compare
\*   start[t]  the locals of the reading call of thread t: the time it
\*             read, its window, the mutation count its iterator was made at
\*   trace[t]  the payments thread t recorded, as (time.time(), amount)
\* ------------------------------------------------------------------------

\* appends and poplefts in one behaviour
MaxMutations == 4

ThreadInit ==
    /\ Init
    /\ _budget = Some(BudgetController_new)

\* what no call on the controller touches
ThreadFrame ==
    UNCHANGED <<now, _wallet, _cache, spending_log, req, headers, challenge,
                amount_sats>>

\* record_payment(amount): self._payments.append((time.time(), amount))
ThreadRecordPayment(t, amount) ==
    /\ pc[t] \in {"idle", "done"}
    /\ nreq < MaxMutations
    /\ _budget' = Some(record_payment(Val(_budget), amount, now))
    /\ nreq' = nreq + 1
    /\ trace' = [trace EXCEPT ![t] = Append(@, <<"record_payment", <<now, amount>>>>)]
    /\ pc' = [pc EXCEPT ![t] = "done"]
    /\ outcome' = [outcome EXCEPT ![t] = Some([kind |-> "return", value |-> 0])]
    /\ UNCHANGED start
    /\ ThreadFrame

\* spent_last_hour() or spent_last_day() is called: now = time.time(), and
\* _prune(now) is entered
ThreadSpentLast(t, window) ==
    /\ pc[t] \in {"idle", "done"}
    /\ pc' = [pc EXCEPT ![t] = "while"]
    /\ start' = [start EXCEPT ![t] = Some([at |-> now, window |-> window, state |-> 0])]
    /\ outcome' = [outcome EXCEPT ![t] = None]
    /\ UNCHANGED <<_budget, nreq, trace>>
    /\ ThreadFrame

\* while self._payments and self._payments[0][0] < cutoff: the test
ThreadPruneTest(t) ==
    /\ pc[t] = "while"
    /\ LET held == Val(_budget).payments
       IN  pc' = [pc EXCEPT ![t] =
               IF held # <<>> /\ held[1][1] < Val(start[t]).at - DAY
               THEN "popleft" ELSE "iter"]
    /\ UNCHANGED <<_budget, nreq, trace, start, outcome>>
    /\ ThreadFrame

\* self._payments.popleft(), which raises IndexError on an empty deque
ThreadPopLeft(t) ==
    /\ pc[t] = "popleft"
    /\ IF Val(_budget).payments = <<>>
       THEN /\ pc' = [pc EXCEPT ![t] = "done"]
            /\ outcome' = [outcome EXCEPT ![t] =
                   Some([kind |-> "raise", value |-> "IndexError"])]
            /\ UNCHANGED <<_budget, nreq>>
       ELSE /\ pc' = [pc EXCEPT ![t] = "while"]
            /\ _budget' = Some([Val(_budget) EXCEPT !.payments = Tail(@)])
            /\ nreq' = nreq + 1
            /\ UNCHANGED outcome
    /\ UNCHANGED <<trace, start>>
    /\ ThreadFrame

\* sum(amt for ts, amt in self._payments if ts >= ...): the deque's
\* iterator is made
ThreadIter(t) ==
    /\ pc[t] = "iter"
    /\ pc' = [pc EXCEPT ![t] = "sum"]
    /\ start' = [start EXCEPT ![t] = Some([Val(@) EXCEPT !.state = nreq])]
    /\ UNCHANGED <<_budget, nreq, trace, outcome>>
    /\ ThreadFrame

\* the iterator is consumed: each next() raises RuntimeError("deque
\* mutated during iteration") when the deque's mutation count is not the
\* one the iterator was made at; with no mutation in between, the sum of
\* the window is returned
ThreadSum(t) ==
    /\ pc[t] = "sum"
    /\ pc' = [pc EXCEPT ![t] = "done"]
    /\ outcome' = [outcome EXCEPT ![t] =
           IF nreq # Val(start[t]).state
           THEN Some([kind |-> "raise", value |-> "RuntimeError"])
           ELSE Some([kind |-> "return",
                      value |-> SumSince(Val(_budget).payments,
                                         Val(start[t]).at - Val(start[t]).window)])]
    /\ UNCHANGED <<_budget, nreq, trace, start>>
    /\ ThreadFrame

ThreadNext ==
    \/ \E t \in Tasks : ThreadRecordPayment(t, 1)
    \/ \E t \in Tasks, window \in {HOUR, DAY} : ThreadSpentLast(t, window)
    \/ \E t \in Tasks : ThreadPruneTest(t)
    \/ \E t \in Tasks : ThreadPopLeft(t)
    \/ \E t \in Tasks : ThreadIter(t)
    \/ \E t \in Tasks : ThreadSum(t)
    \/ Tick

ThreadSpec == ThreadInit /\ [][ThreadNext]_vars

\* ------------------------------------------------------------------------
\* credential_cache.py: one CredentialCache called from the threads of
\* Tasks.  A call computes its key (and put its credential, reading
\* time.time()) before "with self._lock:"; inside, a thread may be
\* suspended between any two statements.
\*   pc[t]         "key": before the with; "locked": the lock was taken;
\*                 "found": get read a credential; "stored": put inserted
\*                 its own; "done": the lock was released, the call
\*                 returned
\*   req[t]        the call: its name, arguments, key, and put's credential
\*   challenge[t]  get's local cred
\*   start[t]      the map when the lock was taken (before) and released
\*                 (after), and the time the call read (at)
\* ------------------------------------------------------------------------

\* calls made on the cache by the threads in one behaviour
MaxCalls == 3

\* CredentialCache(max_size, default_ttl) holding at most one credential
LockInit == CacheInit /\ _cache.max_size <= 1

\* the thread holds self._lock
Locked(t) == pc[t] \in {"locked", "found", "stored"}

\* what the calls of a thread on the cache leave alone
LockFrame == UNCHANGED <<now, _wallet, _budget, spending_log, headers,
                         amount_sats, trace>>

\* the call ends: the with block is left, the lock released
LockRelease(t, result) ==
    /\ pc' = [pc EXCEPT ![t] = "done"]
    /\ outcome' = [outcome EXCEPT ![t] = Some(result)]

\* get, put, clear or len() is called: up to "with self._lock:"
LockCall(t, op, args) ==
    /\ pc[t] \in {"idle", "done"}
    /\ nreq < MaxCalls
    /\ nreq' = nreq + 1
    /\ pc' = [pc EXCEPT ![t] = "key"]
    /\ req' = [req EXCEPT ![t] =
           Some([op |-> op, args |-> args,
                 key |-> _cache_key(args.domain, args.path),
                 cred |-> IF op # "put" THEN None
                          ELSE Some([macaroon |-> args.macaroon,
                                     preimage |-> args.preimage,
                                     created_at |-> now,
                                     expires_at |->
                                         IF args.expires_at = None
                                            /\ _cache.default_ttl # None
                                         THEN Some(now + Val(_cache.default_ttl))
                                         ELSE args.expires_at])])]
    /\ start' = [start EXCEPT ![t] = Some([before |-> _cache, after |-> _cache, at |-> now])]
    /\ outcome' = [outcome EXCEPT ![t] = None]
    /\ UNCHANGED <<_cache, challenge>>
    /\ LockFrame

\* Mutation of LockAcquire: the with block is entered whoever holds the lock
LockAcquire_Unlocked(t) ==
    /\ pc[t] = "key"
    /\ pc' = [pc EXCEPT ![t] = "locked"]
    /\ start' = [start EXCEPT ![t] = Some([Val(@) EXCEPT !.before = _cache])]
    /\ UNCHANGED <<_cache, nreq, req, challenge, outcome>>
    /\ LockFrame

\* with self._lock: the thread takes the lock once no thread holds it
LockAcquire(t) ==
    /\ pc[t] = "key"
    /\ \A u \in Tasks : ~Locked(u)
    /\ pc' = [pc EXCEPT ![t] = "locked"]
    /\ start' = [start EXCEPT ![t] = Some([Val(@) EXCEPT !.before = _cache])]
    /\ UNCHANGED <<_cache, nreq, req, challenge, outcome>>
    /\ LockFrame

\* the first statements under the lock.  get: cred = self._cache.get(key),
\* and return None if there is none; put: the key is deleted if stored and
\* the credential inserted; clear and len() are one statement
LockedFirst(t) ==
    /\ pc[t] = "locked"
    /\ LET c == Val(req[t])
           i == IndexOf(_cache.entries, c.key)
           without == IF i # 0 THEN RemoveAt(_cache.entries, i)
                      ELSE _cache.entries
           put == [_cache EXCEPT !.entries =
                       Append(without, [key |-> c.key, cred |-> Val(c.cred)])]
           after == CASE c.op = "put" -> put
                      [] c.op = "clear" -> CredentialCache_clear(_cache)
                      [] OTHER -> _cache
       IN  /\ _cache' = after
           /\ start' = [start EXCEPT ![t] = Some([Val(@) EXCEPT !.after = after])]
           /\ CASE c.op = "get" /\ i # 0 ->
                       /\ pc' = [pc EXCEPT ![t] = "found"]
                       /\ challenge' = [challenge EXCEPT ![t] =
                              Some(_cache.entries[i].cred)]
                       /\ UNCHANGED outcome
                [] c.op = "put" ->
                       /\ pc' = [pc EXCEPT ![t] = "stored"]
                       /\ UNCHANGED <<challenge, outcome>>
                [] OTHER ->
                       /\ LockRelease(t, [kind |-> "return",
                                          value |-> IF c.op = "len"
                                                    THEN Some(CredentialCache_len(_cache))
                                                    ELSE None])
                       /\ UNCHANGED challenge
    /\ UNCHANGED <<nreq, req>>
    /\ LockFrame

\* get goes on with the credential it read: del self._cache[key] when it
\* is expired, self._cache.move_to_end(key) otherwise; both raise KeyError
\* for a key that is not stored
LockedGet(t) ==
    /\ pc[t] = "found"
    /\ LET c == Val(req[t])
           cred == Val(challenge[t])
           i == IndexOf(_cache.entries, c.key)
           after == IF i = 0 THEN _cache
                    ELSE IF is_expired(cred, now)
                    THEN [_cache EXCEPT !.entries = RemoveAt(@, i)]
                    ELSE [_cache EXCEPT !.entries =
                              Append(RemoveAt(@, i), _cache.entries[i])]
       IN  /\ _cache' = after
           /\ start' = [start EXCEPT ![t] =
                  Some([Val(@) EXCEPT !.after = after, !.at = now])]
           /\ LockRelease(t, IF i = 0
                             THEN [kind |-> "raise", value |-> None]
                             ELSE [kind |-> "return",
                                   value |-> IF is_expired(cred, now) THEN None
                                             ELSE Some(cred)])
    /\ UNCHANGED <<nreq, req, challenge>>
    /\ LockFrame

\* put goes on: while len(self._cache) > self._max_size:
\* self._cache.popitem(last=False), then return cred
LockedPut(t) ==
    /\ pc[t] = "stored"
    /\ IF Len(_cache.entries) > _cache.max_size
       THEN /\ _cache' = [_cache EXCEPT !.entries = Tail(@)]
            /\ start' = [start EXCEPT ![t] =
                   Some([Val(@) EXCEPT !.after = _cache'])]
            /\ UNCHANGED <<pc, outcome>>
       ELSE /\ LockRelease(t, [kind |-> "return", value |-> Val(req[t]).cred])
            /\ UNCHANGED <<_cache, start>>
    /\ UNCHANGED <<nreq, req, challenge>>
    /\ LockFrame

LockNext ==
    \/ \E t \in Tasks, look \in Lookups : LockCall(t, "get", look)
    \/ \E t \in Tasks, args \in Puts : LockCall(t, "put", args)
    \/ \E t \in Tasks, op \in {"clear", "len"} :
            LockCall(t, op, [domain |-> <<>>, path |-> <<>>])
    \/ \E t \in Tasks : LockAcquire(t)
    \/ \E t \in Tasks : LockedFirst(t)
    \/ \E t \in Tasks : LockedGet(t)
    \/ \E t \in Tasks : LockedPut(t)
    \/ CacheTick /\ UNCHANGED trace

LockSpec == LockInit /\ [][LockNext]_vars

\* ------------------------------------------------------------------------
\* wallets/__init__.py: WalletBase.pay_invoice_sync(bolt11).  Thread 1 is
\* the caller, thread 2 the worker of the ThreadPoolExecutor.
\*   pc[1]     "result": in future.result(timeout=60); "exit": leaving the
\*             with block, in pool.shutdown(wait=True); "run": in
\*             asyncio.run on the caller's own thread
\*   pc[2]     "run": in asyncio.run(self.pay_invoice(bolt11))
\*   start[1]  whether a loop runs on the caller's thread, when the
\*             payment was submitted, and what the with block is left with
\*   outcome   [2]: the future's result; [1]: what pay_invoice_sync
\*             returns or raises
\* ------------------------------------------------------------------------

\* future.result(timeout=60)
RESULT_TIMEOUT == 60

\* readings of the clock: the call, and up to and past the timeout
BridgeTimes == {0, RESULT_TIMEOUT - 1, RESULT_TIMEOUT, RESULT_TIMEOUT + 1}

BridgeInit == Init /\ _budget = None

\* what the bridge leaves alone
BridgeFrame ==
    UNCHANGED <<_wallet, _budget, _cache, spending_log, nreq, headers,
                challenge, amount_sats, trace>>

\* pay_invoice_sync(bolt11) is called: with a running loop the payment is
\* submitted to the pool's worker and the caller waits for the future,
\* without one the caller runs it itself
BridgeCall(bolt11, running) ==
    /\ pc[1] = "idle"
    /\ req' = [req EXCEPT ![1] = Some(bolt11)]
    /\ start' = [start EXCEPT ![1] =
           Some([running |-> running, submitted |-> now, leaving |-> None])]
    /\ pc' = IF running THEN [pc EXCEPT ![1] = "result", ![2] = "run"]
             ELSE [pc EXCEPT ![1] = "run"]
    /\ UNCHANGED <<now, outcome>>
    /\ BridgeFrame

\* asyncio.run(self.pay_invoice(bolt11)) ends on thread t with result (a
\* preimage returned or an error raised): on the worker it becomes the
\* future's result, on the caller's thread what pay_invoice_sync ends with
BridgePaid(t, result) ==
    /\ pc[t] = "run"
    /\ pc' = [pc EXCEPT ![t] = "done"]
    /\ outcome' = [outcome EXCEPT ![t] = Some(result)]
    /\ UNCHANGED <<now, req, start>>
    /\ BridgeFrame

\* future.result(timeout=60) returns or re-raises the future's result
BridgeResult ==
    /\ pc[1] = "result"
    /\ outcome[2] # None
    /\ pc' = [pc EXCEPT ![1] = "exit"]
    /\ start' = [start EXCEPT ![1] = Some([Val(@) EXCEPT !.leaving = outcome[2]])]
    /\ UNCHANGED <<now, req, outcome>>
    /\ BridgeFrame

\* future.result(timeout=60) raises TimeoutError: 60 seconds have passed
\* and the future is not done
BridgeTimeout ==
    /\ pc[1] = "result"
    /\ outcome[2] = None
    /\ now >= Val(start[1]).submitted + RESULT_TIMEOUT
    /\ pc' = [pc EXCEPT ![1] = "exit"]
    /\ start' = [start EXCEPT ![1] =
           Some([Val(@) EXCEPT !.leaving =
                     Some([kind |-> "raise", value |-> <<"TimeoutError">>])])]
    /\ UNCHANGED <<now, req, outcome>>
    /\ BridgeFrame

\* the with block is left: ThreadPoolExecutor.__exit__ calls
\* shutdown(wait=True), which joins the worker, and then the return value
\* or the exception goes to the caller
BridgeExit ==
    /\ pc[1] = "exit"
    /\ pc[2] = "done"
    /\ pc' = [pc EXCEPT ![1] = "done"]
    /\ outcome' = [outcome EXCEPT ![1] = Val(start[1]).leaving]
    /\ UNCHANGED <<now, req, start>>
    /\ BridgeFrame

\* time passes while the call is under way
BridgeTick ==
    /\ pc[1] # "idle"
    /\ \E later \in BridgeTimes : later > now /\ now' = later
    /\ UNCHANGED <<pc, req, start, outcome>>
    /\ BridgeFrame

BridgeNext ==
    \/ \E bolt11 \in {InvAny, Inv0, Inv1, Inv2, Inv3}, running \in BOOLEAN :
            BridgeCall(bolt11, running)
    \/ \E t \in Tasks, preimage \in Preimages :
            BridgePaid(t, [kind |-> "return", value |-> preimage])
    \/ \E t \in Tasks, e \in WalletErrors :
            BridgePaid(t, [kind |-> "raise", value |-> <<e.type>>])
    \/ BridgeResult
    \/ BridgeTimeout
    \/ BridgeExit
    \/ BridgeTick

\* The caller's own steps are taken when they can be and the clock goes
\* on; nothing makes the payment complete.
BridgeSpec ==
    /\ BridgeInit
    /\ [][BridgeNext]_vars
    /\ WF_vars(BridgeResult)
    /\ WF_vars(BridgeTimeout)
    /\ WF_vars(BridgeExit)
    /\ WF_vars(BridgeTick)

\* ------------------------------------------------------------------------
\* challenge.py called on its own: find_l402_challenge(headers[1]) by
\* thread 1 and parse_challenge(req[2]) by thread 2; outcome is what each
\* returned or raised.
\* ------------------------------------------------------------------------

\* header values: empty, two that parse, one without a challenge, one
\* whose macaroon is blank
FindValues ==
    {<<>>, QuotedHeader(M1, Inv1), BareHeader(M2, Inv1), BearerHeader,
     QuotedHeader(<<" ">>, Inv1)}

\* the headers of a response: up to two, under the name in either
\* spelling or under another name
FindHeaders ==
    LET names == {HdrName, WWWAuthenticate, <<"x">>}
        items == names \X FindValues
    IN  {<<>>} \cup {<<h>> : h \in items}
        \cup {pair \in items \X items : pair[1][1] # pair[2][1]}

FindInit ==
    /\ now = 0
    /\ _wallet = None
    /\ _budget = None
    /\ _cache = [max_size |-> CacheSize, default_ttl |-> None, entries |-> <<>>]
    /\ spending_log = <<>>
    /\ nreq = 0
    /\ pc = [t \in Tasks |-> "idle"]
    /\ \E value \in FindValues : req = [t \in Tasks |-> IF t = 2 THEN Some(value) ELSE None]
    /\ \E hdrs \in FindHeaders : headers = [t \in Tasks |-> IF t = 1 THEN hdrs ELSE <<>>]
    /\ challenge = [t \in Tasks |-> None]
    /\ amount_sats = [t \in Tasks |-> None]
    /\ outcome = [t \in Tasks |-> None]
    /\ trace = [t \in Tasks |-> <<>>]
    /\ start = [t \in Tasks |-> None]

\* thread t has called: result is what the call returned or raised
FindDone(t, result) ==
    /\ pc[t] = "idle"
    /\ pc' = [pc EXCEPT ![t] = "done"]
    /\ outcome' = [outcome EXCEPT ![t] = Some(result)]
    /\ UNCHANGED <<now, _wallet, _budget, _cache, spending_log, nreq, req,
                   headers, challenge, amount_sats, trace, start>>

\* find_l402_challenge(headers[1])
FindCall ==
    FindDone(1, [kind |-> "return", value |-> find_l402_challenge(headers[1])])

\* parse_challenge(req[2])
ParseCall ==
    LET parsed == parse_challenge(Val(req[2]))
    IN  FindDone(2, IF parsed.ok
                    THEN [kind |-> "return", value |-> Some(parsed.challenge)]
                    ELSE [kind |-> "raise", value |-> Some(parsed.error)])

FindNext == FindCall \/ ParseCall

FindSpec == FindInit /\ [][FindNext]_vars

\* ------------------------------------------------------------------------
\* bolt11.py called on its own: extract_amount_sats(bolt11) for invoices
\* put together from a prefix, the digits of an amount, a multiplier and
\* what follows them.  req[1] is the parts, outcome[1] what was returned
\* (an int as its digits).
\* ------------------------------------------------------------------------

\* the digits of the amounts: none, small ones, and coefficients of 28 and
\* of 29 digits (none holds the separator's "1")
AmountDigits ==
    {<<>>, <<"0">>, <<"9">>, <<"2", "0">>, <<"0", "0", "2">>,
     <<"2", "9", "9", "9", "9">>, <<"3", "0", "0", "0", "0">>,
     [i \in 1..DECIMAL_PREC |-> "9"], [i \in 1..(DECIMAL_PREC + 1) |-> "9"]}

\* the invoices: "ln" and a network in either case and after a blank, or
\* not; a multiplier in either case or none; the separator "1" or not
AmountParts ==
    [ln : {<<"l", "n", "b", "c">>, <<"L", "N", "T", "B">>,
           <<" ", "l", "n", "b", "c">>, <<"l", "n">>, <<"x", "n", "b", "c">>},
     amount : AmountDigits,
     multiplier : {<<>>, <<"m">>, <<"u">>, <<"n">>, <<"p">>, <<"U">>, <<"P">>},
     rest : {<<"1", "x">>, <<"x">>}]
    \cup {[ln |-> <<>>, amount |-> <<>>, multiplier |-> <<>>, rest |-> <<>>]}

\* the invoice string
Bolt11Of(parts) == parts.ln \o parts.amount \o parts.multiplier \o parts.rest

AmountInit ==
    /\ now = 0
    /\ _wallet = None
    /\ _budget = None
    /\ _cache = [max_size |-> CacheSize, default_ttl |-> None, entries |-> <<>>]
    /\ spending_log = <<>>
    /\ nreq = 0
    /\ pc = [t \in Tasks |-> "idle"]
    /\ \E parts \in AmountParts : req = [t \in Tasks |-> IF t = 1 THEN Some(parts) ELSE None]
    /\ headers = [t \in Tasks |-> <<>>]
    /\ challenge = [t \in Tasks |-> None]
    /\ amount_sats = [t \in Tasks |-> None]
    /\ outcome = [t \in Tasks |-> None]
    /\ trace = [t \in Tasks |-> <<>>]
    /\ start = [t \in Tasks |-> None]

\* extract_amount_sats(bolt11) is called and returns
AmountNext ==
    /\ pc[1] = "idle"
    /\ pc' = [pc EXCEPT ![1] = "done"]
    /\ outcome' = [outcome EXCEPT ![1] = Some(ExtractedSats(Bolt11Of(Val(req[1]))))]
    /\ UNCHANGED <<now, _wallet, _budget, _cache, spending_log, nreq, req,
                   headers, challenge, amount_sats, trace, start>>

AmountSpec == AmountInit /\ [][AmountNext]_vars

\* ------------------------------------------------------------------------
\* spending_log.py: a SpendingLog called on its own.  nreq counts the
\* calls of record; outcome[1] is what the last call returned.
\* ------------------------------------------------------------------------

\* calls of record in one behaviour
MaxRecords == 3

LedgerInit == Init /\ _budget = None

\* what the calls on the ledger leave alone
LedgerFrame ==
    UNCHANGED <<now, _wallet, _budget, _cache, pc, req, headers, challenge,
                amount_sats, trace, start>>

\* record(domain, path, amount, preimage, success), which returns the entry
LedgerRecord(domain, amount, success) ==
    /\ nreq < MaxRecords
    /\ nreq' = nreq + 1
    /\ spending_log' = SpendingLog_record(spending_log, domain, <<"", "x">>, amount,
                           IF success THEN <<"P">> ELSE <<>>, success, now)
    /\ outcome' = [outcome EXCEPT ![1] =
           Some([call |-> "record", value |-> spending_log'[Len(spending_log')]])]
    /\ LedgerFrame

\* total_spent(), by_domain() and len() are called
LedgerRead ==
    /\ outcome' = [outcome EXCEPT ![1] =
           Some([call |-> "read",
                 value |-> [total_spent |-> SpendingLog_total_spent(spending_log),
                            by_domain |-> SpendingLog_by_domain(spending_log),
                            len |-> SpendingLog_len(spending_log)]])]
    /\ UNCHANGED <<spending_log, nreq>>
    /\ LedgerFrame

LedgerNext ==
    \/ \E domain \in {<<"a">>, <<"b">>}, amount \in 1..2, success \in BOOLEAN :
            LedgerRecord(domain, amount, success)
    \/ LedgerRead
    \/ Tick

LedgerSpec == LedgerInit /\ [][LedgerNext]_vars

\* ------------------------------------------------------------------------
\* Properties of request().  An invocation is read off its task's trace and
\* off start, the client as the invocation found it.
\* ------------------------------------------------------------------------

\* the calls named name that the invocation of task t has made so far
Calls(t, name) == SelectSeq(trace[t], LAMBDA call : call[1] = name)

Count(t, name) == Len(Calls(t, name))

\* the argument of the n-th call named name
Arg(t, name, n) == Calls(t, name)[n][2]

\* the first send of the invocation has been answered with a response
Answered(t) == Count(t, "send") >= 1 /\ Arg(t, "send", 1).response # None

FirstResponse(t) == Val(Arg(t, "send", 1).response)

\* s is what is left of whole after dropping entries from its front
IsSuffix(s, whole) ==
    /\ Len(s) <= Len(whole)
    /\ s = SubSeq(whole, Len(whole) - Len(s) + 1, Len(whole))

\* origin and first two path segments of a request, spelled out
ClaimKey(r) ==
    LET segs == SelectSeq(r.path, LAMBDA seg : seg # "")
    IN  <<lower(r.netloc), SubSeq(segs, 1, IF Len(segs) < 2 THEN Len(segs) ELSE 2)>>

\* nothing was stored in the cache since the invocation of t began
NothingCached(t) ==
    /\ Count(t, "cache_put") = 0
    /\ \A i \in 1..Len(_cache.entries) :
           \E j \in 1..Len(Val(start[t]).cache.entries) :
               _cache.entries[i] = Val(start[t]).cache.entries[j]

\* the cache differs from the one the invocation of t found at most by the
\* looked-up entry: promoted, or purged because it had expired
OnlyLookedUp(t) ==
    LET before == Val(start[t]).cache.entries
        key == ClaimKey(Val(req[t]))
        Other(entry) == entry.key # key
    IN  /\ NothingCached(t)
        /\ _cache.max_size = Val(start[t]).cache.max_size
        /\ SelectSeq(_cache.entries, Other) = SelectSeq(before, Other)
        /\ \A j \in 1..Len(before) :
               (\A i \in 1..Len(_cache.entries) : _cache.entries[i] # before[j])
               => /\ before[j].key = key
                  /\ before[j].cred.expires_at # None
                  /\ Val(before[j].cred.expires_at) <= Val(start[t]).now

\* C1: in one invocation of request() the wallet is asked to pay at most
\* once and the transport is called at most twice; a retry answered with
\* 402, with or without a challenge, ends the invocation, which returns
\* that response.
C1_OnePaymentOneRetry ==
    \A t \in Tasks :
        /\ Count(t, "pay") <= 1
        /\ Count(t, "send") <= 2
        /\ (/\ Count(t, "send") = 2
            /\ Arg(t, "send", 2).response # None
            /\ Val(Arg(t, "send", 2).response).status_code = 402)
           => /\ pc[t] = "done"
              /\ outcome[t] = Returned(Val(Arg(t, "send", 2).response))
              /\ trace[t][Len(trace[t])][1] = "send"

\* a retry was answered with a fresh challenge, and that is what came back
C1_Witness ==
    \E t \in Tasks :
        /\ pc[t] = "done"
        /\ Count(t, "pay") = 1
        /\ Count(t, "send") = 2
        /\ outcome[t] = Returned(Challenge402(QuotedHeader(M1, Inv0)))

\* BudgetController.check was called in the invocation of t and raised
CheckRaised(t) == Count(t, "check") = 1 /\ Arg(t, "check", 1).error # None

\* C2: when BudgetController.check raises, the invocation raises that
\* BudgetExceededError or DomainNotAllowedError; the wallet is not called,
\* the ledger and the budget window gain no entry, no credential is stored
\* and exactly one send was made.
C2_RefusedPaymentLeavesNoTrace ==
    \A t \in Tasks :
        CheckRaised(t) =>
            LET error == Val(Arg(t, "check", 1).error)
            IN  /\ pc[t] = "done"
                /\ error.type \in {"BudgetExceededError", "DomainNotAllowedError"}
                /\ outcome[t] = Raised(error)
                /\ Count(t, "pay") = 0
                /\ spending_log = Val(start[t]).log
                /\ IsSuffix(Val(_budget).payments, Val(Val(start[t]).budget).payments)
                /\ NothingCached(t)
                /\ Count(t, "send") = 1

\* the hourly ceiling refused a payment after an earlier one was recorded
C2_Witness ==
    \E t \in Tasks :
        /\ CheckRaised(t)
        /\ Val(Arg(t, "check", 1).error).type = "BudgetExceededError"
        /\ Val(Arg(t, "check", 1).error).limit_type = "per_hour"
        /\ Val(_budget).payments # <<>>

\* 402 responses without a challenge that parses: no WWW-Authenticate
\* header, an empty one, another scheme's, an L402 one with a blank macaroon
Unchallenged402 ==
    {Response(402, <<>>), Challenge402(<<>>), Challenge402(BearerHeader),
     Challenge402(QuotedHeader(<<" ">>, Inv1))}

\* C3: a 402 response without a parsable L402/LSAT challenge is returned
\* as it is after the one send; nothing is paid, and no ledger entry, no
\* budget entry and no credential is stored.
C3_UnchallengedPassedThrough ==
    \A t \in Tasks :
        (Answered(t) /\ FirstResponse(t) \in Unchallenged402) =>
            /\ pc[t] = "done"
            /\ outcome[t] = Returned(FirstResponse(t))
            /\ Count(t, "send") = 1
            /\ Count(t, "pay") = 0
            /\ spending_log = Val(start[t]).log
            /\ _budget = Val(start[t]).budget
            /\ NothingCached(t)

\* an L402 challenge whose macaroon is blank came back to the caller of a
\* client that holds a credential and a recorded payment
C3_Witness ==
    \E t \in Tasks :
        /\ pc[t] = "done"
        /\ outcome[t] = Returned(Challenge402(QuotedHeader(<<" ">>, Inv1)))
        /\ spending_log # <<>>
        /\ _cache.entries # <<>>

\* C4: a first response whose status is not 402 ends the invocation, which
\* returns it after that one send; the wallet is neither resolved nor
\* called, the ledger and the budget window are as before, and the cache
\* differs at most by the looked-up entry, promoted or purged.
C4_Non402Terminal ==
    \A t \in Tasks :
        (Answered(t) /\ FirstResponse(t).status_code # 402) =>
            /\ pc[t] = "done"
            /\ outcome[t] = Returned(FirstResponse(t))
            /\ Count(t, "send") = 1
            /\ Count(t, "get_wallet") = 0
            /\ Count(t, "pay") = 0
            /\ _wallet = Val(start[t]).wallet
            /\ spending_log = Val(start[t]).log
            /\ _budget = Val(start[t]).budget
            /\ OnlyLookedUp(t)

\* a 200 response that carries an L402 challenge was returned by a client
\* with a recorded payment, whose lookup purged an expired credential
C4_Witness ==
    \E t \in Tasks :
        /\ pc[t] = "done"
        /\ outcome[t] = Returned(Response(200, <<<<HdrName, QuotedHeader(M1, Inv1)>>>>))
        /\ spending_log # <<>>
        /\ Len(_cache.entries) < Len(Val(start[t]).cache.entries)

\* the values the n-th send of the invocation of t carried under a header
SentHeader(t, n, name) ==
    LET hdrs == Arg(t, "send", n).headers
    IN  {hdrs[i][2] : i \in {j \in 1..Len(hdrs) : hdrs[j][1] = name}}

\* the credential is not expired at the given instant
Unexpired(cred, at) == cred.expires_at = None \/ Val(cred.expires_at) > at

\* C5: a paid challenge leaves its credential in the cache under the
\* origin and the first two path segments of the request; an invocation
\* that finds an unexpired credential under its own origin and first two
\* segments sends it as the Authorization header of its first send and,
\* when the answer is not 402, pays nothing.
C5_CachedCredentialReused ==
    \A t \in Tasks :
        /\ (pc[t] = "retry" /\ _cache.max_size >= 1) =>
               \E i \in 1..Len(_cache.entries) :
                   /\ _cache.entries[i].key = ClaimKey(Val(req[t]))
                   /\ _cache.entries[i].cred.macaroon = Val(challenge[t]).macaroon
                   /\ Some(_cache.entries[i].cred.preimage) = Arg(t, "pay", 1).preimage
                   /\ Unexpired(_cache.entries[i].cred, now)
        /\ start[t] # None =>
               \A j \in 1..Len(Val(start[t]).cache.entries) :
                   LET held == Val(start[t]).cache.entries[j]
                   IN  (/\ held.key = ClaimKey(Val(req[t]))
                        /\ Unexpired(held.cred, Val(start[t]).now))
                       => /\ Count(t, "send") >= 1 =>
                              SentHeader(t, 1, AuthName) =
                                  {<<"L", "4", "0", "2", " ">> \o held.cred.macaroon
                                   \o <<":">> \o held.cred.preimage}
                          /\ (Answered(t) /\ FirstResponse(t).status_code # 402)
                             => pc[t] = "done" /\ Count(t, "pay") = 0

\* the credential paid for /api/v1/x was sent for /api/v1/y in place of the
\* caller's own Authorization header and accepted, without another payment
C5_Witness ==
    \E t \in Tasks :
        /\ pc[t] = "done"
        /\ Val(req[t]).path = <<"", "api", "v1", "y">>
        /\ Len(spending_log) = 1
        /\ spending_log[1].path = <<"", "api", "v1", "x">>
        /\ Arg(t, "cache_get", 1) = TRUE
        /\ SentHeader(t, 1, AuthName) # {<<"B">>}
        /\ Count(t, "pay") = 0
        /\ Val(outcome[t]).kind = "return"
        /\ Val(outcome[t]).response.status_code = 200

RECURSIVE Total(_)
Total(payments) ==
    IF payments = <<>> THEN 0 ELSE payments[1][2] + Total(Tail(payments))

\* the recorded payments of the trailing window of the given length
Trailing(payments, length) ==
    SelectSeq(payments, LAMBDA payment : payment[1] >= now - length)

\* C6: with one client used sequentially, every recorded payment is at
\* most max_sats_per_request, the recorded payments of the trailing hour
\* sum to at most max_sats_per_hour and those of the trailing 24 hours to
\* at most max_sats_per_day.
C6_WindowsWithinCeilings ==
    _budget # None =>
        LET budget == Val(_budget)
        IN  /\ \A i \in 1..Len(budget.payments) :
                   budget.payments[i][2] <= budget.max_sats_per_request
            /\ Total(Trailing(budget.payments, HOUR)) <= budget.max_sats_per_hour
            /\ Total(Trailing(budget.payments, DAY)) <= budget.max_sats_per_day

\* two payments recorded within the hour fill the hourly ceiling
C6_Witness ==
    /\ _budget # None
    /\ Len(Val(_budget).payments) = 2
    /\ Total(Trailing(Val(_budget).payments, HOUR)) = Val(_budget).max_sats_per_hour

\* the wallet's pay call of the invocation of t has returned or raised
PayCompleted(t) == Count(t, "pay") = 1

PayRaised(t) == PayCompleted(t) /\ Arg(t, "pay", 1).error # None

PayReturnedIn(t) == PayCompleted(t) /\ Arg(t, "pay", 1).error = None

\* the ledger entries appended since the invocation of t began
Appended(t) ==
    SubSeq(spending_log, Len(Val(start[t]).log) + 1, Len(spending_log))

\* C7: the ledger gains exactly one entry in every invocation whose pay
\* call returned (success = TRUE) or raised (success = FALSE), and none in
\* an invocation that did not call the wallet.
C7_OneEntryPerAttempt ==
    \A t \in Tasks :
        start[t] # None =>
            IF PayCompleted(t)
            THEN /\ Len(Appended(t)) = 1
                 /\ Appended(t)[1].success = (Arg(t, "pay", 1).error = None)
            ELSE Appended(t) = <<>>

\* an any-amount invoice was paid and the ledger is empty
C7_Unrecorded ==
    \E t \in Tasks :
        /\ PayReturnedIn(t)
        /\ Arg(t, "pay", 1).invoice = InvAny
        /\ spending_log = <<>>

\* C8: when the pay call returned and an amount was extracted from the
\* invoice, 0 included, record_payment was called on the configured budget
\* with that amount and a successful ledger entry with that amount and
\* the returned preimage was appended.
C8_ExtractedAmountRecorded ==
    \A t \in Tasks :
        (PayReturnedIn(t) /\ amount_sats[t] # None) =>
            /\ _budget # None =>
                   /\ Count(t, "record_payment") = 1
                   /\ Arg(t, "record_payment", 1) = Val(amount_sats[t])
                   /\ Val(_budget).payments # <<>>
                   /\ Val(_budget).payments[Len(Val(_budget).payments)][2]
                          = Val(amount_sats[t])
            /\ Len(Appended(t)) = 1
            /\ Appended(t)[1].success
            /\ Appended(t)[1].amount_sats = Val(amount_sats[t])
            /\ Some(Appended(t)[1].preimage) = Arg(t, "pay", 1).preimage

\* an invoice of half a satoshi was paid: 0 was extracted, and neither the
\* budget nor the ledger holds the payment
C8_ZeroUnrecorded ==
    \E t \in Tasks :
        /\ PayReturnedIn(t)
        /\ Arg(t, "pay", 1).invoice = Inv0
        /\ amount_sats[t] = Some(0)
        /\ _budget # None
        /\ Val(_budget).payments = <<>>
        /\ spending_log = <<>>

\* C9: when the pay call raised and an amount was extracted, the
\* invocation has raised and the ledger gained exactly one entry, with
\* preimage "" and success = FALSE, for the request's host, path and amount.
C9_FailureRecorded ==
    \A t \in Tasks :
        (PayRaised(t) /\ amount_sats[t] # None) =>
            /\ pc[t] = "done"
            /\ Val(outcome[t]).kind = "raise"
            /\ Len(Appended(t)) = 1
            /\ Appended(t)[1].preimage = <<>>
            /\ ~Appended(t)[1].success
            /\ Appended(t)[1].domain = lower(Val(req[t]).netloc)
            /\ Appended(t)[1].path = Val(req[t]).path
            /\ Appended(t)[1].amount_sats = Val(amount_sats[t])

\* the payment of an invoice of half a satoshi failed and the ledger is
\* empty
C9_ZeroFailureUnrecorded ==
    \E t \in Tasks :
        /\ PayRaised(t)
        /\ Arg(t, "pay", 1).invoice = Inv0
        /\ amount_sats[t] = Some(0)
        /\ pc[t] = "done"
        /\ spending_log = <<>>

\* the error kinds of this package
SystemErrorKinds ==
    {"L402Error", "BudgetExceededError", "PaymentFailedError",
     "InvoiceExpiredError", "ChallengeParseError", "NoWalletError",
     "DomainNotAllowedError"}

\* C10: when the pay call raises, the invocation raises the wallet's own
\* error if that is one of this package's kinds, and otherwise a
\* PaymentFailedError whose cause is the wallet's error and whose invoice
\* is the invoice of the challenge.
C10_PayErrorPropagation ==
    \A t \in Tasks :
        PayRaised(t) =>
            LET e == Val(Arg(t, "pay", 1).error)
            IN  /\ pc[t] = "done"
                /\ Val(outcome[t]).kind = "raise"
                /\ IF e.type \in SystemErrorKinds
                   THEN Val(outcome[t]).error = e
                   ELSE /\ Val(outcome[t]).error.type = "PaymentFailedError"
                        /\ Val(outcome[t]).error.cause = Some(e)
                        /\ Val(outcome[t]).error.bolt11
                               = Some(Val(challenge[t]).invoice)
                        /\ Val(challenge[t]).invoice = Arg(t, "pay", 1).invoice

\* a wallet's TimeoutError reached the caller as a PaymentFailedError
C10_Witness ==
    \E t \in Tasks :
        /\ PayRaised(t)
        /\ Val(Arg(t, "pay", 1).error).type = "TimeoutError"
        /\ Val(outcome[t]).error.type = "PaymentFailedError"
        /\ Val(outcome[t]).error.bolt11 = Some(Inv2)

\* the positions in the trace of t of the calls named name
Positions(t, name) == {i \in 1..Len(trace[t]) : trace[t][i][1] = name}

\* a 402 response whose challenge carries an invoice without an amount
AnyAmount402 == Challenge402(QuotedHeader(M1, InvAny))

\* C11: for an any-amount invoice BudgetController.check is not called and
\* the wallet is resolved and, if there is one, asked to pay; after every
\* payment that returned, with or without a known amount, the challenge's
\* macaroon and the returned preimage are put in the cache, under the
\* request's key, after the payment and before the retry is sent.
C11_UnknownAmountPaidAndCached ==
    \A t \in Tasks :
        /\ (Answered(t) /\ FirstResponse(t) = AnyAmount402) =>
               /\ amount_sats[t] = None
               /\ Count(t, "check") = 0
               /\ Count(t, "get_wallet") = 1
               /\ Arg(t, "get_wallet", 1) = TRUE =>
                      pc[t] = "pay" \/ Count(t, "pay") = 1
        /\ PayReturnedIn(t) =>
               /\ Count(t, "cache_put") = 1
               /\ Arg(t, "cache_put", 1).macaroon = Val(challenge[t]).macaroon
               /\ Some(Arg(t, "cache_put", 1).preimage) = Arg(t, "pay", 1).preimage
               /\ \A i \in Positions(t, "pay"), j \in Positions(t, "cache_put") :
                      i < j
               /\ \A i \in Positions(t, "cache_put"), j \in Positions(t, "send") :
                      j = 2 \/ i < j
               /\ (pc[t] = "retry" /\ _cache.max_size >= 1) =>
                      LET newest == _cache.entries[Len(_cache.entries)]
                      IN  /\ newest.key = ClaimKey(Val(req[t]))
                          /\ newest.cred.macaroon = Val(challenge[t]).macaroon
                          /\ Some(newest.cred.preimage) = Arg(t, "pay", 1).preimage

\* under a configured budget an any-amount invoice was paid and its
\* credential cached, and the retry has been answered
C11_Witness ==
    \E t \in Tasks :
        /\ _budget # None
        /\ Answered(t)
        /\ FirstResponse(t) = AnyAmount402
        /\ PayReturnedIn(t)
        /\ Count(t, "send") = 2
        /\ _cache.entries # <<>>
        /\ _cache.entries[Len(_cache.entries)].cred.macaroon = M1

\* ------------------------------------------------------------------------
\* Properties of CredentialCache, read off the calls listed in trace[1].
\* ------------------------------------------------------------------------

\* the name and the arguments of the i-th call on the cache
OpName(i) == trace[1][i][1]

OpArg(i) == trace[1][i][2]

\* the entries the i-th call found and the entries it left
Before(i) == OpArg(i).before

After(i) == IF i < Len(trace[1]) THEN Before(i + 1) ELSE _cache.entries

\* the call that led to this state.  Every call is the latest call of the
\* state it leads to, so what holds of the latest call in every state holds
\* of every call.
Latest == {Len(trace[1])} \ {0}

\* the key of the i-th call, a get or a put: the origin in lower case and
\* the first two non-empty segments of the path
OpKey(i) == ClaimKey([netloc |-> OpArg(i).domain, path |-> OpArg(i).path])

\* the i-th call used its key: it put it, or got a credential for it
Used(i) ==
    \/ OpName(i) = "put"
    \/ OpName(i) = "get" /\ OpArg(i).cred # None

\* the last of the first n calls that used key, 0 if none did
LastUse(key, n) ==
    LET uses == {i \in 1..n : Used(i) /\ OpKey(i) = key}
    IN  IF uses = {} THEN 0 ELSE CHOOSE i \in uses : \A j \in uses : j <= i

\* the keys stored in entries
Keys(entries) == {entries[i].key : i \in 1..Len(entries)}

\* the key among keys that the first n calls used least recently
LeastRecentlyUsed(keys, n) ==
    CHOOSE k \in keys : \A other \in keys : LastUse(k, n) <= LastUse(other, n)

\* the i-th call puts a key that is not stored into a full cache
PutsNewKeyIntoFull(i) ==
    /\ OpName(i) = "put"
    /\ OpKey(i) \notin Keys(Before(i))
    /\ Len(Before(i)) = _cache.max_size

\* the keys the i-th call, a put, removed, its own key among them if it is
\* not stored afterwards
Evicted(i) == (Keys(Before(i)) \cup {OpKey(i)}) \ Keys(After(i))

\* C12: whatever get, put and clear calls were made, the cache never holds
\* more than max_size entries; a put of a key that is not stored into a full
\* cache removes exactly one entry, the one whose key was put or
\* successfully got least recently.
C12_BoundedStrictLRU ==
    /\ CredentialCache_len(_cache) <= _cache.max_size
    /\ \A i \in Latest :
           /\ Len(Before(i)) <= _cache.max_size
           /\ PutsNewKeyIntoFull(i) =>
                  /\ Len(After(i)) = Len(Before(i))
                  /\ Evicted(i) =
                         {LeastRecentlyUsed(Keys(Before(i)) \cup {OpKey(i)}, i)}

\* a cache of two entries was filled, emptied by clear and filled again, and
\* the put of a third key evicted the older of the two
C12_Witness ==
    /\ _cache.max_size = 2
    /\ Len(trace[1]) = 4
    /\ OpName(1) = "clear"
    /\ PutsNewKeyIntoFull(4)
    /\ Evicted(4) = {OpKey(2)}
    /\ OpKey(4) \in Keys(_cache.entries)

\* the credentials entries holds under key
Holding(entries, key) ==
    {entries[j].cred : j \in {n \in 1..Len(entries) : entries[n].key = key}}

\* cred has an expiry and it is at or before the instant at
ExpiredBy(cred, at) == cred.expires_at # None /\ Val(cred.expires_at) <= at

\* the i-th call is a get that finds its key stored with an expired
\* credential
GetFindsExpired(i) ==
    /\ OpName(i) = "get"
    /\ \E cred \in Holding(Before(i), OpKey(i)) : ExpiredBy(cred, OpArg(i).at)

\* C13: get returns no credential whose expires_at is at or before the time
\* of the call; a get that finds such a credential under its key removes
\* that entry, one entry less being stored, and returns none; a credential
\* put without expires_at into a cache with a default_ttl expires
\* default_ttl after the put.
C13_ExpiredNeverReturned ==
    \A i \in Latest :
        /\ (OpName(i) = "get" /\ OpArg(i).cred # None) =>
               /\ ~ExpiredBy(Val(OpArg(i).cred), OpArg(i).at)
               /\ Val(OpArg(i).cred) \in Holding(Before(i), OpKey(i))
        /\ GetFindsExpired(i) =>
               /\ OpArg(i).cred = None
               /\ Len(After(i)) = Len(Before(i)) - 1
               /\ Keys(After(i)) = Keys(Before(i)) \ {OpKey(i)}
        /\ (/\ OpName(i) = "put"
            /\ OpArg(i).expires_at = None
            /\ _cache.default_ttl # None) =>
               \A cred \in Holding(After(i), OpKey(i)) :
                   cred.expires_at = Some(OpArg(i).at + Val(_cache.default_ttl))

\* a credential put at 0 without expires_at was looked up exactly
\* default_ttl later: the get returned none and removed the entry
C13_Witness ==
    /\ Len(trace[1]) = 2
    /\ _cache.default_ttl = Some(DEFAULT_TTL)
    /\ OpName(1) = "put" /\ OpArg(1).expires_at = None /\ OpArg(1).at = 0
    /\ GetFindsExpired(2)
    /\ OpArg(2).at = DEFAULT_TTL
    /\ OpArg(2).cred = None
    /\ Before(2) # <<>>
    /\ _cache.entries = <<>>

\* the i-th call is a get that follows, with no time passing, a put of its
\* key
GetsJustPut(i) ==
    /\ i >= 2
    /\ OpName(i - 1) = "put"
    /\ OpName(i) = "get"
    /\ OpKey(i - 1) = OpKey(i)
    /\ OpArg(i - 1).at = OpArg(i).at

\* the credential the i-th call returned is the one the j-th call put
ReturnsPut(i, j) ==
    /\ OpArg(i).cred # None
    /\ Val(OpArg(i).cred).macaroon = OpArg(j).macaroon
    /\ Val(OpArg(i).cred).preimage = OpArg(j).preimage

\* the last of the calls before the i-th that put the key of the i-th
LastPut(i) ==
    LET puts == {j \in 1..(i - 1) : OpName(j) = "put" /\ OpKey(j) = OpKey(i)}
    IN  IF puts = {} THEN 0 ELSE CHOOSE j \in puts : \A k \in puts : k <= j

\* every key is stored once, and what get returns for a key is what the
\* last put on it stored
OneCredentialPerKey ==
    /\ Cardinality(Keys(_cache.entries)) = Len(_cache.entries)
    /\ \A i \in Latest :
           /\ (OpName(i) = "put" /\ _cache.max_size >= 1) =>
                  /\ Cardinality(Holding(After(i), OpKey(i))) = 1
                  /\ \A cred \in Holding(After(i), OpKey(i)) :
                         /\ cred.macaroon = OpArg(i).macaroon
                         /\ cred.preimage = OpArg(i).preimage
           /\ (OpName(i) = "get" /\ OpArg(i).cred # None) =>
                  LastPut(i) # 0 /\ ReturnsPut(i, LastPut(i))

\* C14, for every default_ttl: with max_size >= 1, a put without
\* expires_at followed at once by a get of a path with the same key returns
\* the macaroon and preimage put; a put on a stored key replaces the entry.
C14_PutThenGetAnyTtl ==
    /\ \A i \in Latest :
           (/\ GetsJustPut(i)
            /\ _cache.max_size >= 1
            /\ OpArg(i - 1).expires_at = None) => ReturnsPut(i, i - 1)
    /\ OneCredentialPerKey

\* C14, with a default_ttl that is none or positive: with max_size >= 1, a
\* put without expires_at followed at once by a get of a path with the same
\* key returns the macaroon and preimage put; a put on a stored key
\* replaces the entry, and get returns what was put last.
C14_PutThenGet ==
    /\ \A i \in Latest :
           (/\ GetsJustPut(i)
            /\ _cache.max_size >= 1
            /\ OpArg(i - 1).expires_at = None
            /\ (_cache.default_ttl = None \/ Val(_cache.default_ttl) > 0)) =>
               ReturnsPut(i, i - 1)
    /\ OneCredentialPerKey

\* a key was put with M2 and put again with M1, without expires_at, and a
\* get of another path of the same key returned M1, the only entry
C14_Witness ==
    /\ Len(trace[1]) = 4
    /\ _cache.default_ttl = Some(DEFAULT_TTL)
    /\ OpName(1) = "put" /\ OpArg(1).macaroon = M2
    /\ OpName(3) = "put" /\ OpArg(3).macaroon = M1
    /\ OpKey(1) = OpKey(3)
    /\ GetsJustPut(4)
    /\ OpArg(4).path # OpArg(3).path
    /\ ReturnsPut(4, 3)
    /\ Len(_cache.entries) = 1

\* the call before the i-th found a full cache of at least two keys and
\* used the least recently used of them: a get that returned its
\* credential, or a put on that key
UsesLeastRecentlyUsed(i) ==
    /\ i >= 2
    /\ Used(i - 1)
    /\ Len(Before(i - 1)) = _cache.max_size
    /\ Cardinality(Keys(Before(i - 1))) >= 2
    /\ OpKey(i - 1) = LeastRecentlyUsed(Keys(Before(i - 1)), i - 2)

\* C15: when the least recently used key A of a full cache is successfully
\* got, or put again, and a key that is not stored is put next, the entry
\* evicted is the one that was second least recently used, and A stays.
C15_UsePromotes ==
    \A i \in Latest :
        (UsesLeastRecentlyUsed(i) /\ PutsNewKeyIntoFull(i)) =>
            /\ Evicted(i) =
                   {LeastRecentlyUsed(Keys(Before(i - 1)) \ {OpKey(i - 1)}, i - 2)}
            /\ OpKey(i - 1) \in Keys(After(i))

\* two keys were put, the first was got, and the put of a third key evicted
\* the second
C15_Witness ==
    /\ Len(trace[1]) = 4
    /\ OpName(3) = "get"
    /\ UsesLeastRecentlyUsed(4)
    /\ PutsNewKeyIntoFull(4)
    /\ Evicted(4) = {OpKey(2)}
    /\ OpKey(1) \in Keys(_cache.entries)

\* ------------------------------------------------------------------------
\* Properties of _cache_key, read off req and outcome.
\* ------------------------------------------------------------------------

\* the key task t computed
KeyComputed(t) == Val(outcome[t]).response

\* both tasks have computed their keys
BothKeyed == \A t \in Tasks : outcome[t] # None

\* the first two non-empty segments of path, or fewer when it has fewer
RECURSIVE FirstSegments(_, _)
FirstSegments(path, n) ==
    IF n = 0 \/ path = <<>> THEN <<>>
    ELSE IF Head(path) = "" THEN FirstSegments(Tail(path), n)
    ELSE <<Head(path)>> \o FirstSegments(Tail(path), n - 1)

\* origin without the blanks before and after it
RECURSIVE Trimmed(_)
Trimmed(origin) ==
    IF origin = <<>> THEN <<>>
    ELSE IF IsSpace(Head(origin)) THEN Trimmed(Tail(origin))
    ELSE IF IsSpace(origin[Len(origin)])
    THEN Trimmed(SubSeq(origin, 1, Len(origin) - 1))
    ELSE origin

\* C16, as stated: the key is the origin in lower case with the first two
\* non-empty path segments (or fewer), and two pairs have the same key
\* exactly when their origins are equal but for case and their first two
\* non-empty segments are equal.
C16_KeyIsLowerOriginAndPrefix ==
    /\ \A t \in Tasks :
           outcome[t] # None =>
               KeyComputed(t) = <<lower(Val(req[t]).netloc),
                                  FirstSegments(Val(req[t]).path, 2)>>
    /\ BothKeyed =>
           (KeyComputed(1) = KeyComputed(2)
              <=> /\ lower(Val(req[1]).netloc) = lower(Val(req[2]).netloc)
                  /\ FirstSegments(Val(req[1]).path, 2)
                        = FirstSegments(Val(req[2]).path, 2))

\* C16, with origins taken without surrounding blanks: the key is the
\* origin in lower case and trimmed with the first two non-empty path
\* segments (or fewer), and two pairs have the same key exactly when their
\* origins are equal but for case and surrounding blanks and their first
\* two non-empty segments are equal.
C16_KeyIsTrimmedLowerOriginAndPrefix ==
    /\ \A t \in Tasks :
           outcome[t] # None =>
               KeyComputed(t) = <<Trimmed(lower(Val(req[t]).netloc)),
                                  FirstSegments(Val(req[t]).path, 2)>>
    /\ BothKeyed =>
           (KeyComputed(1) = KeyComputed(2)
              <=> /\ Trimmed(lower(Val(req[1]).netloc))
                        = Trimmed(lower(Val(req[2]).netloc))
                  /\ FirstSegments(Val(req[1]).path, 2)
                        = FirstSegments(Val(req[2]).path, 2))

\* "/api/v1/x" on " A" and "//api//v1/" on "a" have one key, ("a", "/api/v1")
C16_Witness ==
    /\ BothKeyed
    /\ Val(req[1]).netloc = <<" ", "A">>
    /\ Val(req[1]).path = <<"", "api", "v1", "x">>
    /\ Val(req[2]).netloc = <<"a">>
    /\ Val(req[2]).path = <<"", "", "api", "", "v1", "">>
    /\ KeyComputed(1) = KeyComputed(2)
    /\ KeyComputed(1) = <<<<"a">>, <<"api", "v1">>>>

\* ------------------------------------------------------------------------
\* Properties of BudgetController.check, read off the latest call in
\* trace[1].
\* ------------------------------------------------------------------------

\* the latest call on the controller was a check
Checked == trace[1] # <<>> /\ trace[1][1][1] = "check"

\* its arguments, its instant, the controller it found and its error
TheCheck == trace[1][1][2]

\* what the controller had recorded within the length seconds before at
SpentWithin(payments, at, length) ==
    Total(SelectSeq(payments, LAMBDA payment : payment[1] >= at - length))

HourSum == SpentWithin(TheCheck.before.payments, TheCheck.at, HOUR)

DaySum == SpentWithin(TheCheck.before.payments, TheCheck.at, DAY)

\* the allow-list admits origin: there is no allow-set, or no origin, or a
\* member that is the origin but for case
OriginAllowed(budget, origin) ==
    \/ budget.allowed_domains = None
    \/ origin \in {None, Some(<<>>)}
    \/ \E member \in Val(budget.allowed_domains) :
           lower(member) = lower(Val(origin))

\* the checked amount is over the ceiling of one request
OverRequest == TheCheck.amount > TheCheck.before.max_sats_per_request

\* the checked amount would take the hour, the day over its ceiling
OverHour == HourSum + TheCheck.amount > TheCheck.before.max_sats_per_hour

OverDay == DaySum + TheCheck.amount > TheCheck.before.max_sats_per_day

\* the error raised is a BudgetExceededError of the given kind, with the
\* given ceiling and window sum and the checked amount
Exceeded(kind, limit, current) ==
    /\ TheCheck.error # None
    /\ Val(TheCheck.error).type = "BudgetExceededError"
    /\ Val(TheCheck.error).limit_type = kind
    /\ Val(TheCheck.error).limit_sats = limit
    /\ Val(TheCheck.error).current_sats = current
    /\ Val(TheCheck.error).invoice_sats = TheCheck.amount

\* the error raised is a DomainNotAllowedError
DomainRefused ==
    /\ TheCheck.error # None
    /\ Val(TheCheck.error).type = "DomainNotAllowedError"

\* C17: check tests the allow-list, the ceiling of one request, the hour
\* and the day in this order and raises for the first test that fails:
\* DomainNotAllowedError before any BudgetExceededError, per_request before
\* per_hour before per_day, the error carrying the ceiling, the sum of the
\* window (0 for per_request) and the amount; it raises nothing when no
\* test fails.
C17_FirstFailureRaised ==
    Checked =>
        IF ~OriginAllowed(TheCheck.before, TheCheck.domain) THEN DomainRefused
        ELSE IF OverRequest
        THEN Exceeded("per_request", TheCheck.before.max_sats_per_request, 0)
        ELSE IF OverHour
        THEN Exceeded("per_hour", TheCheck.before.max_sats_per_hour, HourSum)
        ELSE IF OverDay
        THEN Exceeded("per_day", TheCheck.before.max_sats_per_day, DaySum)
        ELSE TheCheck.error = None

\* an amount over all three ceilings at once was refused as per_request,
\* with payments in the hour's window
C17_Witness ==
    /\ Checked
    /\ OriginAllowed(TheCheck.before, TheCheck.domain)
    /\ OverRequest /\ OverHour /\ OverDay
    /\ HourSum > 0
    /\ Exceeded("per_request", PerRequestCeiling, 0)

\* no test before the hour's fails
ReachesHour == OriginAllowed(TheCheck.before, TheCheck.domain) /\ ~OverRequest

\* no test before the day's fails
ReachesDay == ReachesHour /\ ~OverHour

\* the check raised a BudgetExceededError of this kind
ExceededKind(kind) ==
    /\ TheCheck.error # None
    /\ Val(TheCheck.error).type = "BudgetExceededError"
    /\ Val(TheCheck.error).limit_type = kind

\* C18: the ceilings are inclusive.  A check that no earlier test stops
\* passes the test of one request when the amount is max_sats_per_request
\* and fails it as per_request at one more; passes the hour's test when the
\* hour's sum and the amount make max_sats_per_hour and fails it as
\* per_hour at one more; passes the day's test when the day's sum and the
\* amount make max_sats_per_day and fails it as per_day at one more; a check
\* at or under all three ceilings raises nothing.
C18_CeilingsInclusive ==
    Checked =>
        LET amount == TheCheck.amount
            budget == TheCheck.before
        IN  /\ OriginAllowed(budget, TheCheck.domain) =>
                   /\ amount = budget.max_sats_per_request =>
                          ~ExceededKind("per_request")
                   /\ amount = budget.max_sats_per_request + 1 =>
                          ExceededKind("per_request")
            /\ ReachesHour =>
                   /\ HourSum + amount = budget.max_sats_per_hour =>
                          ~ExceededKind("per_hour")
                   /\ HourSum + amount = budget.max_sats_per_hour + 1 =>
                          ExceededKind("per_hour")
            /\ ReachesDay =>
                   /\ DaySum + amount = budget.max_sats_per_day =>
                          TheCheck.error = None
                   /\ DaySum + amount = budget.max_sats_per_day + 1 =>
                          ExceededKind("per_day")
            /\ (ReachesDay /\ ~OverDay) => TheCheck.error = None

\* a check of exactly max_sats_per_request that fills the hour and the day
\* exactly to their ceilings raised nothing
C18_Witness ==
    /\ Checked
    /\ TheCheck.amount = TheCheck.before.max_sats_per_request
    /\ HourSum > 0
    /\ HourSum + TheCheck.amount = TheCheck.before.max_sats_per_hour
    /\ DaySum + TheCheck.amount = TheCheck.before.max_sats_per_day
    /\ TheCheck.error = None

\* C19: with an allow-set, empty or not, and a non-empty origin, check
\* raises DomainNotAllowedError exactly when no member of the set is the
\* origin but for case, whatever the amount; without an allow-set, or with
\* an origin that is empty or none, it never does.
C19_AllowListCaseInsensitive ==
    Checked =>
        LET allowed == TheCheck.before.allowed_domains
            origin == TheCheck.domain
        IN  IF allowed # None /\ origin # None /\ Val(origin) # <<>>
            THEN DomainRefused
                   <=> \A member \in Val(allowed) :
                           lower(member) # lower(Val(origin))
            ELSE ~DomainRefused

\* an empty allow-set refused the origin "a" for the amount 0, which is
\* under every ceiling
C19_Witness ==
    /\ Checked
    /\ TheCheck.before.allowed_domains = Some({})
    /\ TheCheck.domain = Some(<<"a">>)
    /\ TheCheck.amount = 0
    /\ DomainRefused

\* ------------------------------------------------------------------------
\* Properties of the client's budget argument.
\* ------------------------------------------------------------------------

\* L402Client(budget=None) and L402Client() without the argument
BudgetNone == [given |-> TRUE, value |-> None]

BudgetLeftOut == [given |-> FALSE, value |-> None]

\* C20: a client constructed with budget=None has no controller: check is
\* never called, so for every challenge found, whatever its amount and the
\* origin, the wallet is resolved and (if there is one) asked to pay, and a
\* payment that returned for a known amount other than 0 appends one
\* successful ledger entry of that amount; a client constructed without
\* the argument has a BudgetController with the ceilings 1000, 10000 and
\* 50000.
C20_NoBudgetNoLimit ==
    /\ L402Client_budget(BudgetNone) = None
    /\ L402Client_budget(BudgetLeftOut) # None
    /\ Val(L402Client_budget(BudgetLeftOut)).max_sats_per_request = 1000
    /\ Val(L402Client_budget(BudgetLeftOut)).max_sats_per_hour = 10000
    /\ Val(L402Client_budget(BudgetLeftOut)).max_sats_per_day = 50000
    /\ _budget = None =>
           \A t \in Tasks :
               /\ Count(t, "check") = 0
               /\ Count(t, "record_payment") = 0
               /\ (Answered(t) /\ challenge[t] # None) =>
                      /\ Count(t, "get_wallet") = 1
                      /\ Arg(t, "get_wallet", 1) = TRUE =>
                             pc[t] = "pay" \/ PayCompleted(t)
               /\ (/\ PayReturnedIn(t)
                   /\ amount_sats[t] # None
                   /\ Val(amount_sats[t]) # 0) =>
                      /\ Len(Appended(t)) = 1
                      /\ Appended(t)[1].success
                      /\ Appended(t)[1].amount_sats = Val(amount_sats[t])

\* without a budget an invoice of 3 sats, more than max_sats_per_request of
\* the configured controllers, was paid for the host "b" and entered in
\* the ledger
C20_Witness ==
    \E t \in Tasks :
        /\ _budget = None
        /\ PayReturnedIn(t)
        /\ amount_sats[t] = Some(3)
        /\ Val(req[t]).netloc = <<"b">>
        /\ spending_log # <<>>
        /\ spending_log[Len(spending_log)].success
        /\ spending_log[Len(spending_log)].amount_sats = 3

\* ------------------------------------------------------------------------
\* Properties of the headers request() sends.
\* ------------------------------------------------------------------------

\* the values the n-th send of the invocation of t carried under the header
\* Authorization, however its name is spelled, in the order of the dict
SentAuthorization(t, n) ==
    LET hdrs == Arg(t, "send", n).headers
        mine == SelectSeq(hdrs, LAMBDA item : lower(item[1]) = LowerAuthName)
    IN  [i \in 1..Len(mine) |-> mine[i][2]]

\* "L402 " + macaroon + ":" + preimage
Token(macaroon, preimage) ==
    <<"L", "4", "0", "2", " ">> \o macaroon \o <<":">> \o preimage

\* C21: the retry carries one Authorization header, "L402 " + the
\* challenge's macaroon + ":" + the preimage the wallet returned, whatever
\* Authorization header the caller passed or the cache supplied, and the
\* credential cached in the invocation yields the same header.
C21_RetryAuthorizationExact ==
    \A t \in Tasks :
        Count(t, "send") = 2 =>
            /\ SentAuthorization(t, 2) =
                   <<Token(Val(challenge[t]).macaroon,
                           Val(Arg(t, "pay", 1).preimage))>>
            /\ _cache.max_size >= 1 =>
                   /\ _cache.entries # <<>>
                   /\ <<authorization_header(
                            _cache.entries[Len(_cache.entries)].cred)>>
                          = SentAuthorization(t, 2)

\* the caller passed "authorization: B"; the retry carried both that
\* header and "Authorization: L402 M2:P"
C21_TwoAuthorizations ==
    \E t \in Tasks :
        /\ Count(t, "send") = 2
        /\ SentAuthorization(t, 2) = <<<<"B">>, Token(M2, <<"P">>)>>

\* C26: the synchronous and the asynchronous client are one state machine:
\* in every state an AsyncL402Client reaches, each step of its request()
\* (given a request, a transport answer, a wallet outcome) is the step
\* L402Client.request() takes from the same state given the same, with the
\* same calls on cache, budget, wallet, ledger and transport, the same
\* arguments, and the same response returned or error raised
C26_AsyncStepsAreSyncSteps ==
    [][/\ \A t \in SeqTasks, r \in CallerRequests :
              (AsyncBegin(t, r) /\ Entered(t)) <=> Begin(t, r)
       /\ \A t \in SeqTasks, response \in CallerResponses,
             detected \in {None, Some("wallet")} :
              (AsyncFirstSend(t, response, detected) /\ UNCHANGED start)
                  <=> FirstSend(t, response, detected)
       /\ \A t \in SeqTasks :
              (AsyncTransportError(t) /\ UNCHANGED start) <=> TransportError(t)
       /\ \A t \in SeqTasks, e \in WalletErrors :
              (AsyncPayFailed(t, e) /\ UNCHANGED start) <=> PayFailed(t, e)
       /\ \A t \in SeqTasks, preimage \in Preimages :
              (AsyncPayReturned(t, preimage) /\ UNCHANGED start)
                  <=> PayReturned(t, preimage)
       /\ \A t \in SeqTasks, response \in RetryResponses :
              (AsyncRetrySend(t, response) /\ UNCHANGED start)
                  <=> RetrySend(t, response)]_vars

\* an asynchronous invocation that was challenged, paid and retried, and
\* one whose wallet call raised
C26_Witness ==
    /\ Count(1, "send") = 2
    /\ Count(1, "record_payment") = 1
    /\ outcome[1] # None
    /\ Val(outcome[1]).kind = "return"
    /\ \E i \in DOMAIN spending_log : ~spending_log[i].success

\* the payments recorded within the hour (or the day) before now come to
\* more than the controller's ceiling for it
Overspent ==
    \/ SumSince(Val(_budget).payments, now - HOUR) > Val(_budget).max_sats_per_hour
    \/ SumSince(Val(_budget).payments, now - DAY) > Val(_budget).max_sats_per_day

\* the invocation of task t passed the budget check and paid
PassedAndPaid(t) ==
    /\ Count(t, "check") = 1
    /\ Arg(t, "check", 1).error = None
    /\ Count(t, "record_payment") = 1

\* C22: two concurrent invocations on one BudgetController can together
\* exceed the ceiling of a window: a state is reachable (C22_Witness) in
\* which both passed the check before either called record_payment, both
\* paid, and the recorded spend of the window is over the ceiling -- and
\* that interleaving is the only way there: whenever the recorded spend is
\* over a ceiling, both invocations passed their check while the
\* controller held no payment yet, and both recorded theirs
C22_OverspentOnlyByRace ==
    Overspent =>
        \A t \in Tasks : start[t] = Some(<<>>) /\ PassedAndPaid(t)

\* both checks were made before either payment was recorded, both paid,
\* and the hour's recorded spend is over max_sats_per_hour
C22_Witness ==
    /\ \A t \in Tasks : start[t] = Some(<<>>) /\ PassedAndPaid(t)
    /\ SumSince(Val(_budget).payments, now - HOUR) > Val(_budget).max_sats_per_hour
    /\ SumSince(Val(_budget).payments, now - DAY) > Val(_budget).max_sats_per_day

\* the payments the threads recorded during the 24 hours before now
RecordedToday ==
    {p \in UNION {{trace[t][i][2] : i \in 1..Len(trace[t])} : t \in Tasks} :
        p[1] >= now - DAY}

\* the payments the controller holds
Held == {Val(_budget).payments[i] : i \in DOMAIN Val(_budget).payments}

\* C23: every operation of a BudgetController shared by threads is atomic
\* with respect to every other: a prune-and-sum is never interleaved with
\* another caller's mutation, so no call fails for what another thread
\* does meanwhile, and no recorded payment is lost (a payment recorded
\* within the last 24 hours is still held)
C23_OperationsAtomic ==
    /\ \A t \in Tasks : outcome[t] # None => Val(outcome[t]).kind = "return"
    /\ RecordedToday \subseteq Held

\* no call has failed, and a payment recorded within the last 24 hours is
\* no longer held: two threads pruned at once, one popped the expired
\* payment the other had tested, and the other popped the one behind it
C23_PaymentLost ==
    /\ \A t \in Tasks : outcome[t] # None => Val(outcome[t]).kind = "return"
    /\ ~(RecordedToday \subseteq Held)

\* what the call of thread t does when it is executed alone on the map it
\* found when it took the lock: the map afterwards and what it returns
Alone(t) ==
    LET c == Val(req[t])
        g == Val(start[t])
        got == CredentialCache_get(g.before, c.args.domain, c.args.path, g.at)
    IN  CASE c.op = "get" ->
                 [after |-> got.cache,
                  result |-> [kind |-> "return", value |-> got.cred]]
          [] c.op = "put" ->
                 [after |-> CredentialCache_put(g.before, c.args.domain,
                                c.args.path, c.args.macaroon, c.args.preimage,
                                c.args.expires_at, g.at),
                  result |-> [kind |-> "return", value |-> c.cred]]
          [] c.op = "clear" ->
                 [after |-> CredentialCache_clear(g.before),
                  result |-> [kind |-> "return", value |-> None]]
          [] OTHER ->
                 [after |-> g.before,
                  result |-> [kind |-> "return",
                              value |-> Some(CredentialCache_len(g.before))]]

\* C24: under any interleaving of concurrent get, put, clear and len() on
\* one CredentialCache every call behaves as if executed alone at the
\* instant it took the lock: it leaves the map and returns what the call
\* alone does on the map it found, no other thread changes the map while a
\* thread holds the lock, and in every state in which the lock is free the
\* map holds at most max_size entries and one entry per key, and no get
\* has returned a credential that was expired when it was read
C24_CallsAsIfAlone ==
    /\ \A t \in Tasks :
           pc[t] = "done" =>
               /\ Val(start[t]).after = Alone(t).after
               /\ Val(outcome[t]) = Alone(t).result
               /\ (Val(req[t]).op = "get" /\ Val(outcome[t]).value # None)
                      => ~is_expired(Val(Val(outcome[t]).value), Val(start[t]).at)
    /\ \A t \in Tasks : Locked(t) => \A u \in Tasks \ {t} : ~Locked(u)
    /\ \A t \in Tasks : pc[t] \in {"found", "stored"} => _cache = Val(start[t]).after
    /\ (\A t \in Tasks : ~Locked(t)) =>
           /\ Len(_cache.entries) <= _cache.max_size
           /\ \A i, j \in DOMAIN _cache.entries :
                  _cache.entries[i].key = _cache.entries[j].key => i = j

\* a get has found its credential expired and removed it while another
\* thread, which called get for the same key, waited for the lock and then
\* found nothing
C24_Witness ==
    /\ \A t \in Tasks : pc[t] = "done" /\ Val(req[t]).op = "get"
    /\ Val(req[1]).key = Val(req[2]).key
    /\ Val(start[1]).before.entries # <<>>
    /\ Val(start[1]).after.entries = <<>>
    /\ Val(start[2]).before.entries = <<>>
    /\ Val(start[2]).at = Val(start[1]).at

\* C25: pay_invoice_sync called on a thread that drives an event loop runs
\* the payment on a worker and honours its timeout: a caller waiting for
\* the worker's result gets control back, with the result or with a
\* timeout failure, even if the worker's payment never completes
C25_CallerRegainsControl ==
    (pc[1] = "result") ~> (pc[1] = "done")

\* the timeout has passed and TimeoutError was raised in the caller, who is
\* held in the executor's shutdown for as long as the worker's payment runs
C25_HeldAfterTimeout ==
    /\ pc[1] = "exit"
    /\ pc[2] = "run"
    /\ now > Val(start[1]).submitted + RESULT_TIMEOUT
    /\ Val(start[1]).leaving = Some([kind |-> "raise", value |-> <<"TimeoutError">>])

\* the calls of request() in the order of its text; the challenge is
\* parsed between the first send and the budget check
Steps ==
    <<"cache_get", "send", "check", "get_wallet", "pay", "record_payment",
      "ledger", "cache_put", "send">>

\* the names of the calls the invocation of task t has made, in order
Made(t) == [i \in 1..Len(trace[t]) |-> trace[t][i][1]]

\* part is whole with some of its entries left out
RECURSIVE IsSubsequence(_, _)
IsSubsequence(part, whole) ==
    IF part = <<>> THEN TRUE
    ELSE IF whole = <<>> THEN FALSE
    ELSE IF Head(part) = Head(whole)
    THEN IsSubsequence(Tail(part), Tail(whole))
    ELSE IsSubsequence(part, Tail(whole))

\* C27: within one invocation the calls are made in the order cache
\* lookup, first send, budget check, wallet call, budget record_payment,
\* ledger record, cache store, retry send, each at most once; the wallet is
\* called only after the check passed (when an amount is known), the
\* budget and the ledger are written only after the wallet call has ended
\* (the budget only after it returned), a request is sent only after the
\* cache lookup, and the retry only after the credential was stored, which
\* the cache then holds
C27_StepsInOrder ==
    \A t \in Tasks :
        /\ IsSubsequence(Made(t), Steps)
        /\ Count(t, "send") >= 1 => Count(t, "cache_get") = 1
        /\ Count(t, "pay") = 1 =>
               /\ Count(t, "send") >= 1
               /\ amount_sats[t] # None =>
                      Count(t, "check") = 1 /\ Arg(t, "check", 1).error = None
        /\ Count(t, "record_payment") = 1 =>
               Count(t, "pay") = 1 /\ Arg(t, "pay", 1).preimage # None
        /\ Count(t, "ledger") = 1 => Count(t, "pay") = 1
        /\ Count(t, "cache_put") = 1 =>
               Count(t, "pay") = 1 /\ Arg(t, "pay", 1).preimage # None
        /\ Count(t, "send") = 2 => Count(t, "cache_put") = 1
        /\ pc[t] = "retry" =>
               /\ Count(t, "cache_put") = 1 /\ Count(t, "send") = 1
               /\ _cache.max_size >= 1 =>
                      /\ _cache.entries # <<>>
                      /\ _cache.entries[Len(_cache.entries)].cred.macaroon
                             = Val(challenge[t]).macaroon
                      /\ <<_cache.entries[Len(_cache.entries)].cred.preimage>>
                             = Arg(t, "pay", 1).preimage

\* an invocation that made every call: challenged for a known amount,
\* checked, paid, recorded, stored and retried
C27_Witness == Made(1) = Steps

\* the value the headers hold under the name www-authenticate in any
\* spelling (the last such item), <<>> when there is none
NamedWWWAuthenticate(hdrs) ==
    LET named == {i \in 1..Len(hdrs) : lower(hdrs[i][1]) = WWWAuthenticate}
    IN  IF named = {} THEN <<>>
        ELSE hdrs[CHOOSE i \in named : \A j \in named : j <= i][2]

\* C28: find_l402_challenge never raises: it returns None when no header
\* is named www-authenticate (in any letter case), when that header's value
\* is empty, or when parse_challenge raises ChallengeParseError for it, and
\* otherwise exactly what parse_challenge returns; parse_challenge called
\* directly raises for the values find_l402_challenge passes over
C28_FindNeverRaises ==
    /\ pc[1] = "done" =>
           LET value == NamedWWWAuthenticate(headers[1])
           IN  /\ Val(outcome[1]).kind = "return"
               /\ Val(outcome[1]).value =
                      IF value = <<>> \/ ~parse_challenge(value).ok THEN None
                      ELSE Some(parse_challenge(value).challenge)
    /\ pc[2] = "done" =>
           /\ Val(outcome[2]).kind = "raise" <=> ~parse_challenge(Val(req[2])).ok
           /\ Val(outcome[2]).kind = "raise" =>
                  Val(Val(outcome[2]).value).type = "ChallengeParseError"
           /\ Val(req[2]) \in {<<>>, BearerHeader} => Val(outcome[2]).kind = "raise"

\* a value without a challenge, under the name spelled WWW-Authenticate:
\* find_l402_challenge returned None and parse_challenge raised
C28_Witness ==
    /\ pc[1] = "done" /\ pc[2] = "done"
    /\ headers[1] = <<<<HdrName, BearerHeader>>>>
    /\ Val(req[2]) = BearerHeader
    /\ Val(outcome[1]) = [kind |-> "return", value |-> None]
    /\ Val(outcome[2]).kind = "raise"

\* the invoice has the shape ln<network><digits>[multiplier]1...
HasAmount(parts) ==
    /\ lower(strip(parts.ln)) \in {<<"l", "n", "b", "c">>, <<"l", "n", "t", "b">>}
    /\ parts.amount # <<>>
    /\ parts.rest # <<>> /\ parts.rest[1] = "1"

\* ds without its last k digits: the digits of floor(ds / 10^k)
DropLast(ds, k) == IF Len(ds) <= k THEN <<"0">> ELSE SubSeq(ds, 1, Len(ds) - k)

\* the amount in satoshis, exactly: d * 100 for u, d * 100000 for m,
\* floor(d / 10) for n, floor(d / 10000) for p, d * 100000000 without
\* a multiplier
ExactSats(parts) ==
    LET d == parts.amount
        unit == lower(parts.multiplier)
    IN  CanonDigits(CASE unit = <<"u">> -> d \o Zeros(2)
                      [] unit = <<"m">> -> d \o Zeros(5)
                      [] unit = <<"n">> -> DropLast(d, 1)
                      [] unit = <<"p">> -> DropLast(d, 4)
                      [] OTHER -> d \o Zeros(8))

\* C29: for an invoice ln<network><d>[multiplier]1..., in any letter
\* case, extract_amount_sats returns exactly d * 100 for u, d * 100000 for
\* m, floor(d / 10) for n, floor(d / 10000) for p and d * 100000000 without
\* a multiplier; it returns None for an invoice without digits, an empty
\* one, and one that has not that shape
C29_AmountExact ==
    pc[1] = "done" =>
        Val(outcome[1]) = IF HasAmount(Val(req[1]))
                          THEN Some(ExactSats(Val(req[1])))
                          ELSE None

\* an amount of 29 nines in pico-bitcoin: 10^25 was returned, one more than
\* floor(d / 10000)
C29_Rounded ==
    /\ pc[1] = "done"
    /\ Val(req[1]).amount = [i \in 1..(DECIMAL_PREC + 1) |-> "9"]
    /\ Val(req[1]).multiplier = <<"p">>
    /\ Val(outcome[1]) = Some(<<"1">> \o Zeros(DECIMAL_PREC - 3))
    /\ ExactSats(Val(req[1])) = [i \in 1..(DECIMAL_PREC - 3) |-> "9"]

\* the sum of amount_sats over the successful entries of the ledger whose
\* origin is among domains
Spent(domains) ==
    LET counted == {i \in DOMAIN spending_log :
                       spending_log[i].success /\ spending_log[i].domain \in domains}
        sum[n \in 0..Len(spending_log)] ==
            IF n = 0 THEN 0
            ELSE sum[n - 1] + (IF n \in counted THEN spending_log[n].amount_sats ELSE 0)
    IN  sum[Len(spending_log)]

\* the origins of the successful entries
PaidDomains ==
    {spending_log[i].domain : i \in {j \in DOMAIN spending_log : spending_log[j].success}}

\* what total_spent(), by_domain() and len() returned is what the ledger
\* holds: the sum over the successful entries, and that sum split by origin
ReadsAgree ==
    (outcome[1] # None /\ Val(outcome[1]).call = "read") =>
        LET got == Val(outcome[1]).value
            keys == {got.by_domain[i][1] : i \in DOMAIN got.by_domain}
        IN  /\ got.len = Len(spending_log)
            /\ got.total_spent = Spent(PaidDomains)
            /\ keys = PaidDomains
            /\ \A i, j \in DOMAIN got.by_domain :
                   got.by_domain[i][1] = got.by_domain[j][1] => i = j
            /\ \A i \in DOMAIN got.by_domain :
                   got.by_domain[i][2] = Spent({got.by_domain[i][1]})

\* C30: the ledger is append-only: no step shortens it or changes an entry
\* it holds; each call of record appends exactly one entry, the one it
\* returns, with the arguments given, and no other call changes the
\* ledger; total_spent() is the sum of amount_sats over the entries with
\* success = true, and by_domain() splits that same sum by origin
C30_AppendOnlyLedger ==
    [][/\ Len(spending_log') >= Len(spending_log)
       /\ SubSeq(spending_log', 1, Len(spending_log)) = spending_log
       /\ nreq' = nreq => spending_log' = spending_log
       /\ nreq' # nreq =>
              /\ Val(outcome'[1]).call = "record"
              /\ spending_log' = Append(spending_log, Val(outcome'[1]).value)
              /\ Val(outcome'[1]).value.timestamp = now
       /\ ReadsAgree']_vars

\* after a failure and two successes for different origins, a later read
\* returned the successes' sum and two totals
C30_Witness ==
    /\ Len(spending_log) = 3
    /\ ~spending_log[1].success
    /\ spending_log[2].domain # spending_log[3].domain
    /\ outcome[1] # None /\ Val(outcome[1]).call = "read"
    /\ Val(outcome[1]).value.total_spent = 3
    /\ Len(Val(outcome[1]).value.by_domain) = 2

\* ------------------------------------------------------------------------
\* Properties of a failed payment, read off the step in which the wallet
\* call raises.
\* ------------------------------------------------------------------------

\* the calls the invocation of task 1 makes in this step
NewCalls == SubSeq(trace'[1], Len(trace[1]) + 1, Len(trace'[1]))

\* in this step the wallet's pay call of task 1 raises
PayRaises ==
    /\ Len(trace'[1]) > Len(trace[1])
    /\ SubSeq(trace'[1], 1, Len(trace[1])) = trace[1]
    /\ NewCalls[1][1] = "pay"
    /\ NewCalls[1][2].error # None

\* C31: when the wallet's pay call raises, the invocation ends in that
\* step with that failure (itself when it is one of the package's errors,
\* else wrapped in PaymentFailedError); the budget and the credential
\* cache are left as they were before the pay call; record_payment is
\* not called, no credential is stored and nothing is sent again; an
\* invocation that found no credential for its resource leaves none for
\* the next request
C31_FailedPaymentLeavesNoTrace ==
    [][PayRaises =>
          /\ pc'[1] = "done"
          /\ outcome'[1] = Raised(PayError(Val(NewCalls[1][2].error),
                                           Val(challenge[1]).invoice))
          /\ _budget' = _budget
          /\ _cache' = _cache
          /\ \A i \in 1..Len(NewCalls) :
                 NewCalls[i][1] \notin {"record_payment", "cache_put", "send"}
          /\ trace[1][1] = CacheGetCall(FALSE) =>
                 CredentialCache_get(_cache', Hostname(Val(req[1])),
                                     Val(req[1]).path, now').cred = None]_vars

\* a payment has failed in a client whose budget holds a payment and
\* whose cache holds a credential
C31_Witness ==
    /\ pc[1] = "done"
    /\ \E i \in 1..Len(trace[1]) :
           trace[1][i][1] = "pay" /\ trace[1][i][2].error # None
    /\ Val(_budget).payments # <<>>
    /\ _cache.entries # <<>>

\* ------------------------------------------------------------------------
\* budget.py: the windows of one BudgetController over time.  check,
\* record_payment, spent_last_hour and spent_last_day are called at the
\* instants of BudgetTimes.  trace[1] is the latest call, start[1] the
\* latest check that raised per_hour with no payment recorded since, and
\* req[1] every payment recorded so far, pruned or not.
\* ------------------------------------------------------------------------

\* the domain argument of check: in the allow-set but for case, or not
WindowDomains == {Some(<<"a">>), Some(<<"b">>)}

\* the amounts checked and recorded: the least, the ceiling of one
\* request, and one more
WindowAmounts == {1, PerRequestCeiling, PerRequestCeiling + 1}

\* the controllers: the day's ceiling is the hour's or one more, and
\* there is an allow-set or none
WindowInit ==
    /\ now = 0
    /\ _wallet = None
    /\ \E extra \in 0..1, allowed \in {None, Some({<<"A">>})} :
           _budget = Some([max_sats_per_request |-> PerRequestCeiling,
                           max_sats_per_hour |-> PerHourCeiling,
                           max_sats_per_day |-> PerDayCeiling + extra,
                           allowed_domains |-> allowed, payments |-> <<>>])
    /\ _cache = [max_size |-> CacheSize, default_ttl |-> Some(DEFAULT_TTL),
                 entries |-> <<>>]
    /\ spending_log = <<>>
    /\ nreq = 0
    /\ pc = [t \in Tasks |-> "idle"]
    /\ req = [t \in Tasks |-> None]
    /\ headers = [t \in Tasks |-> <<>>]
    /\ challenge = [t \in Tasks |-> None]
    /\ amount_sats = [t \in Tasks |-> None]
    /\ outcome = [t \in Tasks |-> None]
    /\ trace = [t \in Tasks |-> <<>>]
    /\ start = [t \in Tasks |-> None]

\* what the calls on the controller leave alone
WindowFrame ==
    UNCHANGED <<_wallet, _cache, spending_log, nreq, pc, headers, challenge,
                amount_sats, outcome>>

\* budget.check(amount, domain)
WindowCheck(amount, domain) ==
    /\ LET checked == BudgetController_check(Val(_budget), amount, domain, now)
           call == [amount |-> amount, domain |-> domain, at |-> now,
                    before |-> Val(_budget), error |-> checked.error]
       IN  /\ _budget' = Some(checked.budget)
           /\ trace' = [trace EXCEPT ![1] = <<<<"check", call>>>>]
           /\ start' = [start EXCEPT ![1] =
                  IF /\ checked.error # None
                     /\ Val(checked.error).type = "BudgetExceededError"
                     /\ Val(checked.error).limit_type = "per_hour"
                  THEN Some(call) ELSE @]
    /\ UNCHANGED <<now, req>>
    /\ WindowFrame

\* budget.record_payment(amount)
WindowRecord(amount) ==
    /\ Len(Val(_budget).payments) < MaxPayments
    /\ _budget' = Some(record_payment(Val(_budget), amount, now))
    /\ req' = [req EXCEPT ![1] =
           Some(Append(IF @ = None THEN <<>> ELSE Val(@), <<now, amount>>))]
    /\ trace' = [trace EXCEPT ![1] =
           <<<<"record_payment", [amount |-> amount, at |-> now]>>>>]
    /\ start' = [start EXCEPT ![1] = None]
    /\ UNCHANGED now
    /\ WindowFrame

\* budget.spent_last_hour() and budget.spent_last_day(), one after the other
WindowRead ==
    /\ _budget' = Some([Val(_budget) EXCEPT !.payments = _prune(@, now)])
    /\ trace' = [trace EXCEPT ![1] =
           <<<<"spent", [hour |-> spent_last_hour(Val(_budget), now),
                         day |-> spent_last_day(Val(_budget), now),
                         at |-> now, before |-> Val(_budget)]>>>>]
    /\ UNCHANGED <<now, req, start>>
    /\ WindowFrame

\* time.time() advances between two calls
WindowTick ==
    /\ \E later \in BudgetTimes : later > now /\ now' = later
    /\ UNCHANGED <<_budget, trace, req, start>>
    /\ WindowFrame

WindowNext ==
    \/ \E amount \in WindowAmounts, domain \in WindowDomains :
           WindowCheck(amount, domain)
    \/ \E amount \in WindowAmounts \ {PerRequestCeiling + 1} :
           WindowRecord(amount)
    \/ WindowRead
    \/ WindowTick

WindowSpec == WindowInit /\ [][WindowNext]_vars

\* every payment recorded so far
Recorded == IF req[1] = None THEN <<>> ELSE Val(req[1])

\* the sum of the recorded payments whose age at the instant at is at
\* most length seconds
AgedAtMost(at, length) ==
    LET sum[n \in 0..Len(Recorded)] ==
            IF n = 0 THEN 0
            ELSE sum[n - 1] + (IF at - Recorded[n][1] <= length
                               THEN Recorded[n][2] ELSE 0)
    IN  sum[Len(Recorded)]

\* the latest call read the windows, and read them as the recorded
\* payments' ages give them
WindowsRead ==
    (trace[1] # <<>> /\ trace[1][1][1] = "spent") =>
        /\ trace[1][1][2].hour = AgedAtMost(trace[1][1][2].at, HOUR)
        /\ trace[1][1][2].day = AgedAtMost(trace[1][1][2].at, DAY)
        /\ trace[1][1][2].hour <= trace[1][1][2].day

\* payments without the one at position i
Without(payments, i) ==
    SubSeq(payments, 1, i - 1) \o SubSeq(payments, i + 1, Len(payments))

\* the check remembered in start[1] raised per_hour solely because of the
\* payment at position i of the payments it found: without that payment
\* it raises nothing
SolelyBecauseOf(i) ==
    LET was == Val(start[1])
    IN  /\ i \in 1..Len(was.before.payments)
        /\ BudgetController_check(
               [was.before EXCEPT !.payments = Without(@, i)],
               was.amount, was.domain, was.at).error = None

\* the latest call is a check with the arguments of the remembered check, made
\* when the payment that alone made that one fail is older than one hour
RepeatedAfterTheHour ==
    /\ start[1] # None
    /\ trace[1] # <<>> /\ trace[1][1][1] = "check"
    /\ trace[1][1][2].amount = Val(start[1]).amount
    /\ trace[1][1][2].domain = Val(start[1]).domain
    /\ \E i \in 1..Len(Val(start[1]).before.payments) :
           /\ SolelyBecauseOf(i)
           /\ trace[1][1][2].at - Val(start[1]).before.payments[i][1] > HOUR

\* the check of the latest call is refused by the day's ceiling
DayRefuses ==
    AgedAtMost(trace[1][1][2].at, DAY) + trace[1][1][2].amount
        > Val(_budget).max_sats_per_day

\* C32 as stated: the windows slide, a payment counting toward the hour's
\* sum while its age is at most 3600 s and toward the day's while it is
\* at most 86400 s, the hour's sum never above the day's; and a check
\* that failed with per_hour solely because of one payment succeeds once
\* that payment is older than one hour
C32_WindowsSlide ==
    /\ WindowsRead
    /\ spent_last_hour(Val(_budget), now) <= spent_last_day(Val(_budget), now)
    /\ RepeatedAfterTheHour => trace[1][1][2].error = None

\* C32, amended: ... once that payment is older than one hour the check
\* no longer fails with per_hour: it succeeds unless the day's sum, which
\* counts the payment until it is older than 24 hours, and the amount
\* exceed max_sats_per_day, and then it fails with per_day
C32_WindowsSlideDayStillCounts ==
    /\ WindowsRead
    /\ spent_last_hour(Val(_budget), now) <= spent_last_day(Val(_budget), now)
    /\ RepeatedAfterTheHour =>
           IF DayRefuses
           THEN /\ trace[1][1][2].error # None
                /\ Val(trace[1][1][2].error).limit_type = "per_day"
           ELSE trace[1][1][2].error = None

\* a check refused with per_hour because of one payment succeeded when
\* the payment was just over an hour old and still in the day's window
C32_Witness ==
    /\ RepeatedAfterTheHour
    /\ trace[1][1][2].error = None
    /\ trace[1][1][2].at = HOUR + 1
    /\ AgedAtMost(now, DAY) > 0

\* the latest call on the controller is a check or a read of the windows
Inspected == trace[1] # <<>> /\ trace[1][1][1] \in {"check", "spent"}

\* the sum of the payments a controller holds whose age at the instant at
\* is at most length seconds
HeldWithin(budget, at, length) ==
    LET sum[n \in 0..Len(budget.payments)] ==
            IF n = 0 THEN 0
            ELSE sum[n - 1] + (IF at - budget.payments[n][1] <= length
                               THEN budget.payments[n][2] ELSE 0)
    IN  sum[Len(budget.payments)]

\* the payments of later are those of earlier without some of its first
\* ones, each older than 24 hours at the instant at
OnlyPruned(earlier, later, at) ==
    \E k \in 0..Len(earlier.payments) :
        /\ later.payments = SubSeq(earlier.payments, k + 1, Len(earlier.payments))
        /\ \A i \in 1..k : at - earlier.payments[i][1] > DAY

\* C33: check, whether it raises or not, adds no entry to the payment
\* window and changes no ceiling and not the allow-set; all it (and
\* spent_last_hour, spent_last_day) may do to the controller is remove
\* entries older than 24 hours, which changes neither window's sum; the
\* same check repeated at the same time has the same outcome and changes
\* nothing
C33_CheckOnlyPrunes ==
    Inspected =>
        LET call == trace[1][1][2]
            after == Val(_budget)
        IN  /\ after.max_sats_per_request = call.before.max_sats_per_request
            /\ after.max_sats_per_hour = call.before.max_sats_per_hour
            /\ after.max_sats_per_day = call.before.max_sats_per_day
            /\ after.allowed_domains = call.before.allowed_domains
            /\ OnlyPruned(call.before, after, call.at)
            /\ HeldWithin(after, call.at, HOUR) = HeldWithin(call.before, call.at, HOUR)
            /\ HeldWithin(after, call.at, DAY) = HeldWithin(call.before, call.at, DAY)
            /\ trace[1][1][1] = "check" =>
                   BudgetController_check(after, call.amount, call.domain, call.at)
                       = [budget |-> after, error |-> call.error]

\* a check that raised per_day has removed a payment older than 24 hours
\* and kept a later one
C33_Witness ==
    /\ Inspected
    /\ trace[1][1][1] = "check"
    /\ trace[1][1][2].error # None
    /\ Val(trace[1][1][2].error).type = "BudgetExceededError"
    /\ Val(trace[1][1][2].error).limit_type = "per_day"
    /\ Len(trace[1][1][2].before.payments) = 2
    /\ Len(Val(_budget).payments) = 1

\* ------------------------------------------------------------------------
\* challenge.py: parse_challenge(header) on headers put together from
\* their parts.  req[1] is the parts, outcome[1] what the call returned
\* or raised.
\* ------------------------------------------------------------------------

\* the scheme keyword as servers spell it
SchemeSpellings ==
    {<<"L", "4", "0", "2">>, <<"l", "4", "0", "2">>,
     <<"L", "S", "A", "T">>, <<"l", "S", "a", "T">>}

\* the keys macaroon= and invoice= as servers spell them
KeySpellings ==
    {[macaroon |-> KeyMacaroon, invoice |-> KeyInvoice],
     [macaroon |-> <<"M", "A", "C", "A", "R", "O", "O", "N", "=">>,
      invoice |-> <<"I", "n", "v", "o", "i", "c", "e", "=">>]}

\* what precedes the challenge in the header value: nothing, another
\* scheme's challenge, or an unquoted L402 challenge
BareBefore == BareHeader(M2, Inv2) \o <<",", " ">>

Befores == {<<>>, BearerHeader \o <<",", " ">>, BareBefore}

\* the values between the quotes: a token, nothing, a blank, a token with
\* blanks around it
QuotedValues == {M1, <<>>, <<" ">>, <<" ", "M", "1", " ">>}

\* header values of no shape: empty, blank, another scheme's challenge
Shapeless == {<<>>, <<" ">>, BearerHeader}

\* the headers of the two shapes: quoted, and unquoted with a token or
\* nothing as the macaroon; the invoice is a token or nothing; and the
\* headers of no shape, which are all in before
ChallengeParts ==
    {p \in [shape : {"quoted", "unquoted"}, scheme : SchemeSpellings,
            keys : KeySpellings, before : Befores,
            macaroon : QuotedValues, invoice : {Inv1, <<>>}] :
        /\ p.shape = "unquoted" => p.macaroon \in {M1, <<>>}
        /\ p.before = BareBefore =>
               p.shape = "quoted" /\ p.macaroon = M1 /\ p.invoice = Inv1}
    \cup [shape : {"none"}, scheme : {<<>>},
          keys : {[macaroon |-> <<>>, invoice |-> <<>>]}, before : Shapeless,
          macaroon : {<<>>}, invoice : {<<>>}]

\* the header value of the parts
HeaderOf(p) ==
    LET q == IF p.shape = "quoted" THEN <<Quote>> ELSE <<>>
    IN  IF p.shape = "none" THEN p.before
        ELSE p.before \o p.scheme \o <<" ">> \o p.keys.macaroon \o q
             \o p.macaroon \o q \o <<",", " ">> \o p.keys.invoice \o q
             \o p.invoice \o q

ChallengeInit ==
    /\ now = 0
    /\ _wallet = None
    /\ _budget = None
    /\ _cache = [max_size |-> CacheSize, default_ttl |-> None, entries |-> <<>>]
    /\ spending_log = <<>>
    /\ nreq = 0
    /\ pc = [t \in Tasks |-> "idle"]
    /\ \E p \in ChallengeParts :
           req = [t \in Tasks |-> IF t = 1 THEN Some(p) ELSE None]
    /\ headers = [t \in Tasks |-> <<>>]
    /\ challenge = [t \in Tasks |-> None]
    /\ amount_sats = [t \in Tasks |-> None]
    /\ outcome = [t \in Tasks |-> None]
    /\ trace = [t \in Tasks |-> <<>>]
    /\ start = [t \in Tasks |-> None]

\* parse_challenge(header) for the header of req[1]
ChallengeParse ==
    LET parsed == parse_challenge(HeaderOf(Val(req[1])))
    IN  FindDone(1, IF parsed.ok
                    THEN [kind |-> "return", value |-> Some(parsed.challenge)]
                    ELSE [kind |-> "raise", value |-> Some(parsed.error)])

ChallengeNext == ChallengeParse

ChallengeSpec == ChallengeInit /\ [][ChallengeNext]_vars

\* the call has been made
Parsing == pc[1] = "done"

\* the call raised ChallengeParseError
ParseRaised ==
    /\ Val(outcome[1]).kind = "raise"
    /\ Val(Val(outcome[1]).value).type = "ChallengeParseError"

\* the call returned the challenge of this macaroon and invoice
ParseReturned(macaroon, invoice) ==
    /\ Val(outcome[1]).kind = "return"
    /\ Val(Val(outcome[1]).value) = [macaroon |-> macaroon, invoice |-> invoice]

\* C34: parse_challenge recovers exactly the macaroon and the invoice
\* (trimmed of surrounding whitespace) from every header of the quoted
\* and the unquoted shape, under the scheme L402 or LSAT and the keys in
\* any case, the quoted shape being tried first; it raises
\* ChallengeParseError exactly when the header is empty, has no shape, or
\* a field of it is empty after trimming
C34_ExactFieldsOrError ==
    Parsing =>
        LET given == Val(req[1])
        IN  IF given.shape = "none" THEN ParseRaised
            ELSE IF strip(given.macaroon) = <<>> \/ strip(given.invoice) = <<>>
            THEN ParseRaised
            ELSE ParseReturned(strip(given.macaroon), strip(given.invoice))

\* L402 macaroon="", invoice="lnbc10n1x" was parsed into a macaroon of
\* two quotation marks and an invoice within quotation marks
C34_EmptyQuotedAccepted ==
    /\ Parsing
    /\ Val(req[1]).shape = "quoted"
    /\ Val(req[1]).macaroon = <<>>
    /\ Val(req[1]).invoice = Inv1
    /\ ParseReturned(<<Quote, Quote>>, <<Quote>> \o Inv1 \o <<Quote>>)

\* ------------------------------------------------------------------------
\* Properties of the allow-set of the client's budget.
\* ------------------------------------------------------------------------

\* the invocation of task t is for an origin that is not empty and that
\* the allow-set of the client's budget does not hold
OutsideAllowSet(t) ==
    /\ _budget # None
    /\ Val(_budget).allowed_domains # None
    /\ req[t] # None
    /\ Hostname(Val(req[t])) # <<>>
    /\ \A member \in Val(Val(_budget).allowed_domains) :
           lower(member) # Hostname(Val(req[t]))

\* the invocation of task t has called the wallet's pay
WalletCalled(t) ==
    \/ pc[t] = "pay"
    \/ \E i \in 1..Len(trace[t]) : trace[t][i][1] = "pay"

\* C35: with an allow-set configured on the client's budget, no
\* invocation calls the wallet for a request whose origin is not empty
\* and not in the allow-set, whatever the invoice of the challenge,
\* any-amount invoices included
C35_NoPaymentOutsideAllowSet ==
    \A t \in SeqTasks : OutsideAllowSet(t) => ~WalletCalled(t)

\* the wallet has paid an any-amount invoice for an origin outside the
\* allow-set, with no budget check made
C35_AnyAmountPaidOutside ==
    /\ OutsideAllowSet(1)
    /\ amount_sats[1] = None
    /\ \E i \in 1..Len(trace[1]) :
           trace[1][i][1] = "pay" /\ trace[1][i][2].preimage # None
    /\ \A i \in 1..Len(trace[1]) : trace[1][i][1] # "check"

\* ------------------------------------------------------------------------
\* client.py: the credential_cache argument of L402Client() and
\* AsyncL402Client().  Caches are objects: _cache[0] is the cache the
\* caller constructed, _cache[c] the one the constructor of client c
\* makes if it makes one.  start[c] is self._cache of client c: None
\* before the client is constructed, then the number of a cache.
\* trace[c] is the latest cache call of client c's requests, numbered by
\* nreq, the calls made so far.
\* ------------------------------------------------------------------------

\* calls made in one behaviour
MaxShared == 4

\* the default of CredentialCache's max_size
DEFAULT_MAX_SIZE == 256

\* CredentialCache(): the cache the constructor makes by default
CredentialCache_new ==
    [max_size |-> DEFAULT_MAX_SIZE, default_ttl |-> Some(DEFAULT_TTL),
     entries |-> <<>>]

\* bool(cache): CredentialCache defines __len__ and no __bool__
CacheTruthy(cache) == CredentialCache_len(cache) # 0

\* self._cache = credential_cache or CredentialCache(): the number of the
\* cache the client holds, given the number of the argument (None when
\* left out), the caches, and the number of the cache it would make
L402Client_cache(credential_cache, caches, made) ==
    IF credential_cache # None /\ CacheTruthy(caches[Val(credential_cache)])
    THEN Val(credential_cache)
    ELSE made

\* the urls of the clients' requests: two of one cache key, one of another
SharedUrls ==
    {[netloc |-> <<"a">>, path |-> <<"", "api", "v1", "x">>],
     [netloc |-> <<"A">>, path |-> <<"", "api", "v1", "y">>],
     [netloc |-> <<"b">>, path |-> <<"", "api">>]}

ShareInit ==
    /\ now = 0
    /\ _wallet = None
    /\ _budget = None
    /\ _cache = [c \in {0} \cup Tasks |->
                    IF c = 0 THEN [max_size |-> MaxCapacity, default_ttl |-> None,
                                   entries |-> <<>>]
                    ELSE CredentialCache_new]
    /\ spending_log = <<>>
    /\ nreq = 0
    /\ pc = [t \in Tasks |-> "idle"]
    /\ req = [t \in Tasks |-> None]
    /\ headers = [t \in Tasks |-> <<>>]
    /\ challenge = [t \in Tasks |-> None]
    /\ amount_sats = [t \in Tasks |-> None]
    /\ outcome = [t \in Tasks |-> None]
    /\ trace = [t \in Tasks |-> <<>>]
    /\ start = [t \in Tasks |-> None]

\* what the calls of this section leave alone
ShareFrame ==
    UNCHANGED <<now, _wallet, _budget, spending_log, pc, req, headers,
                challenge, amount_sats, outcome>>

\* L402Client(credential_cache=shared), for client c
ShareConstruct(c) ==
    /\ start[c] = None
    /\ nreq < MaxShared
    /\ nreq' = nreq + 1
    /\ start' = [start EXCEPT ![c] = Some(L402Client_cache(Some(0), _cache, c))]
    /\ UNCHANGED <<_cache, trace>>
    /\ ShareFrame

\* the caller stores a credential in the cache it constructed
ShareSeed(r) ==
    /\ nreq < MaxShared
    /\ nreq' = nreq + 1
    /\ _cache' = [_cache EXCEPT ![0] =
           CredentialCache_put(@, Hostname(r), r.path, M2, <<"Q">>, None, now)]
    /\ UNCHANGED <<start, trace>>
    /\ ShareFrame

\* a request of client c looks its url up: _apply_cached_credential
ShareLookup(c, r) ==
    /\ start[c] # None
    /\ nreq < MaxShared
    /\ nreq' = nreq + 1
    /\ LET g == CredentialCache_get(_cache[Val(start[c])], Hostname(r), r.path, now)
       IN  /\ _cache' = [_cache EXCEPT ![Val(start[c])] = g.cache]
           /\ trace' = [trace EXCEPT ![c] =
                  <<[call |-> "get", url |-> r, cred |-> g.cred, number |-> nreq']>>]
    /\ UNCHANGED start
    /\ ShareFrame

\* a request of client c has paid and stores the credential: self._cache.put
ShareStore(c, r) ==
    /\ start[c] # None
    /\ nreq < MaxShared
    /\ nreq' = nreq + 1
    /\ _cache' = [_cache EXCEPT ![Val(start[c])] =
           CredentialCache_put(@, Hostname(r), r.path, M1, <<"P">>, None, now)]
    /\ trace' = [trace EXCEPT ![c] =
           <<[call |-> "put", url |-> r, cred |-> None, number |-> nreq']>>]
    /\ UNCHANGED start
    /\ ShareFrame

ShareNext ==
    \/ \E c \in Tasks : ShareConstruct(c)
    \/ \E r \in SharedUrls : ShareSeed(r)
    \/ \E c \in Tasks, r \in SharedUrls : ShareLookup(c, r)
    \/ \E c \in Tasks, r \in SharedUrls : ShareStore(c, r)

ShareSpec == ShareInit /\ [][ShareNext]_vars

\* client c has just looked up the key of the url for which the other
\* client stored a credential in its latest cache call
FoundAfterOthersStore(c, other) ==
    (/\ trace[c] # <<>> /\ trace[c][1].call = "get"
     /\ trace[c][1].number = nreq
     /\ trace[other] # <<>> /\ trace[other][1].call = "put"
     /\ trace[other][1].number = nreq - 1
     /\ _cache_key(Hostname(trace[c][1].url), trace[c][1].url.path)
            = _cache_key(Hostname(trace[other][1].url), trace[other][1].url.path))
    => /\ trace[c][1].cred # None
       /\ Val(trace[c][1].cred).macaroon = M1
       /\ Val(trace[c][1].cred).preimage = <<"P">>

\* C36: a client constructed with a caller-supplied CredentialCache uses
\* that very instance, whatever it holds at construction time, an empty
\* one included; so two clients given the same cache share credentials:
\* what one has stored after paying the other finds
C36_SuppliedCacheUsed ==
    /\ \A c \in Tasks : start[c] # None => Val(start[c]) = 0
    /\ FoundAfterOthersStore(1, 2)
    /\ FoundAfterOthersStore(2, 1)

\* both clients were given the same empty cache; the second has just
\* looked up what the first stored and found nothing, and the caller's
\* cache is still empty
C36_EmptyCacheReplaced ==
    /\ start[1] = Some(1) /\ start[2] = Some(2)
    /\ trace[1] # <<>> /\ trace[1][1].call = "put"
    /\ trace[2] # <<>> /\ trace[2][1].call = "get"
    /\ trace[2][1].url = trace[1][1].url
    /\ trace[2][1].number = nreq
    /\ trace[2][1].cred = None
    /\ _cache[0].entries = <<>>

\* ------------------------------------------------------------------------
\* client.py: request() with the clock read where the code reads it.
\* After the wallet returns, record_payment reads time.time() (budget.py
\* line 75) and then spending_log.record reads it again (the default of
\* timestamp, spending_log.py line 37), and so does self._cache.put: the
\* second reading may be later than the first.
\* ------------------------------------------------------------------------

\* the instants time.time() takes: a start, the next second, and the same
\* two a day later
AgreeTimes == {0, 1, DAY, DAY + 1}

\* what the transport answers first: success, or a challenge for 1 sat,
\* for 2 sats or without amount
AgreeResponses ==
    {Response(200, <<<<HdrName, QuotedHeader(M1, Inv1)>>>>),
     Response(402, <<<<WWWAuthenticate, BareHeader(M2, Inv1)>>>>),
     Challenge402(QuotedHeader(M2, Inv2)),
     Challenge402(QuotedHeader(M1, InvAny))}

\* the wallet call returns preimage: request() runs on to the retry;
\* record_payment reads the clock at now, spending_log.record and
\* self._cache.put read it at later
PayRecorded(t, preimage, later) ==
    /\ pc[t] = "pay"
    /\ later >= now
    /\ now' = later
    /\ LET r == Val(req[t])
           c == Val(challenge[t])
           amount == amount_sats[t]
           domain == Hostname(r)
           recorded == Truthy(amount) /\ _budget # None
           log == SpendingLog_record(spending_log, domain, r.path,
                                     Val(amount), preimage, TRUE, later)
       IN  /\ _budget' = IF recorded
                         THEN Some(record_payment(Val(_budget), Val(amount), now))
                         ELSE _budget
           /\ spending_log' = IF Truthy(amount) THEN log ELSE spending_log
           /\ _cache' = CredentialCache_put(_cache, domain, r.path, c.macaroon,
                                            preimage, None, later)
           /\ headers' = [headers EXCEPT ![t] =
                  DictSet(@, AuthName, RetryAuthorization(c.macaroon, preimage))]
           /\ trace' = [trace EXCEPT ![t] =
                  @ \o <<PayCall(c.invoice, Some(preimage), None)>>
                    \o (IF recorded THEN <<RecordPaymentCall(Val(amount))>>
                        ELSE <<>>)
                    \o (IF Truthy(amount) THEN <<LedgerCall(log[Len(log)])>>
                        ELSE <<>>)
                    \o <<CachePutCall(c.macaroon, preimage)>>]
    /\ pc' = [pc EXCEPT ![t] = "retry"]
    /\ UNCHANGED <<_wallet, nreq, req, challenge, amount_sats, outcome, start>>

\* time passes between two steps of the client
AgreeTick ==
    /\ \A t \in Tasks : pc[t] # "retry"
    /\ \E later \in AgreeTimes : later > now /\ now' = later
    /\ UNCHANGED <<_wallet, _budget, _cache, spending_log, nreq, pc, req,
                   headers, challenge, amount_sats, outcome, trace, start>>

\* one client with a budget, used by one task at a time
AgreeNext ==
    \/ \E t \in SeqTasks, r \in CallerRequests : Begin(t, r)
    \/ \E t \in SeqTasks, response \in AgreeResponses,
          detected \in {None, Some("wallet")} : FirstSend(t, response, detected)
    \/ \E t \in SeqTasks : TransportError(t)
    \/ \E t \in SeqTasks, e \in WalletErrors : PayFailed(t, e)
    \/ \E t \in SeqTasks, preimage \in Preimages, later \in AgreeTimes :
           PayRecorded(t, preimage, later)
    \/ \E t \in SeqTasks, response \in RetryResponses : RetrySend(t, response)
    \/ AgreeTick

AgreeSpec == CallerInit /\ [][AgreeNext]_vars

\* the successful entries of the ledger
Successes == SelectSeq(spending_log, LAMBDA entry : entry.success)

\* the payments the budget holds are the latest successes of the ledger,
\* amount for amount (the earlier ones were pruned)
SameAmounts ==
    LET held == Val(_budget).payments
        skipped == Len(Successes) - Len(held)
    IN  /\ skipped >= 0
        /\ \A i \in 1..Len(held) : held[i][2] = Successes[skipped + i].amount_sats

\* both read now: budget.spent_last_day() and spending_log.spent_today()
BudgetDay == spent_last_day(Val(_budget), now)

LedgerDay == SpendingLog_spent_today(spending_log, now)

\* a payment's entry in the ledger is within the last 24 hours while its
\* entry in the budget is older (or pruned, being older)
Straddles ==
    LET held == Val(_budget).payments
        skipped == Len(Successes) - Len(held)
    IN  \/ \E i \in 1..skipped : Successes[i].timestamp >= now - DAY
        \/ \E i \in 1..Len(held) :
               /\ Successes[skipped + i].timestamp >= now - DAY
               /\ held[i][1] < now - DAY

\* C37 as stated: for a client with a budget, used sequentially, the
\* amounts of the successful ledger entries are the amounts recorded in
\* the budget window, so budget.spent_last_day() equals
\* spending_log.spent_today() whenever both are read at the same time
C37_LedgerAgreesWithBudget ==
    /\ SameAmounts
    /\ BudgetDay = LedgerDay

\* C37, amended: the amounts agree; the ledger stamps a payment with a
\* later reading of the clock than the budget, so spent_last_day() is
\* never above spent_today() when both are read at the same time, and
\* equals it unless a payment's ledger entry is within the last 24 hours
\* while its budget entry is older
C37_LedgerAgreesUpToTheClock ==
    /\ SameAmounts
    /\ BudgetDay <= LedgerDay
    /\ ~Straddles => BudgetDay = LedgerDay

\* two payments were recorded, each with one timestamp in budget and
\* ledger, and both sums, read within the day, are their total
C37_Witness ==
    /\ Len(Successes) = 2
    /\ Len(Val(_budget).payments) = 2
    /\ ~Straddles
    /\ BudgetDay = LedgerDay
    /\ LedgerDay = 3

\* ------------------------------------------------------------------------
\* wallets/strike.py: StrikeWallet.pay_invoice(bolt11) under request().
\* The client's wallet is the StrikeWallet auto_detect_wallet() finds.
\* _wallet holds the wallet with what the model keeps about it: call, the
\* number (nreq) of the invocation whose pay call it serves or served
\* last; stage, how far that call has come; and paid, the invoices the
\* backend has executed, with the number of the invocation.
\* ------------------------------------------------------------------------

StrikeWallet_new ==
    Some([name |-> "strike", call |-> 0, stage |-> "idle", error |-> None,
          preimage |-> None, paid |-> <<>>])

\* what the transport answers first: success, or a challenge for 1 sat or
\* for 2 sats
StrikeResponses ==
    {Response(200, <<<<HdrName, QuotedHeader(M1, Inv1)>>>>),
     Response(402, <<<<WWWAuthenticate, BareHeader(M2, Inv1)>>>>),
     Challenge402(QuotedHeader(M2, Inv2))}

\* raise PaymentFailedError(message, bolt11) inside pay_invoice
StrikeError(message) == [type |-> "PaymentFailedError", message |-> message]

\* what the steps of pay_invoice leave alone
StrikeFrame ==
    UNCHANGED <<now, _budget, _cache, spending_log, nreq, pc, req, headers,
                challenge, amount_sats, outcome, trace, start>>

\* the pay call of the invocation of task t is at this stage
StrikeAt(t, stage) ==
    /\ pc[t] = "pay"
    /\ IF stage = "idle" THEN Val(_wallet).call # nreq
       ELSE Val(_wallet).call = nreq /\ Val(_wallet).stage = stage

\* step 1, POST /v1/payment-quotes/lightning: a quote with its id, or a
\* connection error, another status, or no paymentQuoteId
StrikeQuote(t, answer) ==
    /\ StrikeAt(t, "idle")
    /\ _wallet' = Some([Val(_wallet) EXCEPT
           !.call = nreq,
           !.stage = IF answer = "quote" THEN "quoted" ELSE "raised",
           !.preimage = None,
           !.error = IF answer = "quote" THEN None
                     ELSE Some(StrikeError(answer))])
    /\ StrikeFrame

\* step 2, PATCH /v1/payment-quotes/{id}/execute: the backend executes the
\* payment and answers 200, or refuses with another status, or the
\* connection fails, before or after the backend has executed
StrikeExecute(t, answer, executed) ==
    /\ StrikeAt(t, "quoted")
    /\ answer = "executed" => executed
    /\ answer = "Strike execution failed" => ~executed
    /\ _wallet' = Some([Val(_wallet) EXCEPT
           !.stage = IF answer = "executed" THEN "executed" ELSE "raised",
           !.error = IF answer = "executed" THEN None
                     ELSE Some(StrikeError(answer)),
           !.paid = IF executed
                    THEN Append(@, [invoice |-> Val(challenge[t]).invoice,
                                    call |-> nreq])
                    ELSE @])
    /\ StrikeFrame

\* step 3: the preimage is read off the answer or fetched from
\* /v1/payments/{id}; without one PaymentFailedError is raised
StrikePreimage(t, found) ==
    /\ StrikeAt(t, "executed")
    /\ _wallet' = Some([Val(_wallet) EXCEPT
           !.stage = IF found # None THEN "returned" ELSE "raised",
           !.preimage = found,
           !.error = IF found # None THEN None
                     ELSE Some(StrikeError(
                              "Strike payment succeeded but no preimage returned"))])
    /\ StrikeFrame

\* pay_invoice raises: the except clause of request()
StrikeRaises(t) ==
    /\ StrikeAt(t, "raised")
    /\ PayFailed(t, Val(Val(_wallet).error))

\* pay_invoice returns the preimage to request()
StrikeReturns(t) ==
    /\ StrikeAt(t, "returned")
    /\ PayReturned(t, Val(Val(_wallet).preimage))

\* pay_invoice_sync inside a running loop: future.result(timeout=60)
\* raises TimeoutError though the worker's pay_invoice has returned
StrikeTimesOut(t) ==
    /\ StrikeAt(t, "returned")
    /\ PayFailed(t, [type |-> "TimeoutError", message |-> "timed out"])

StrikeNext ==
    \/ \E t \in SeqTasks, r \in CallerRequests : Begin(t, r)
    \/ \E t \in SeqTasks, response \in StrikeResponses :
           FirstSend(t, response, StrikeWallet_new)
    \/ \E t \in SeqTasks : TransportError(t)
    \/ \E t \in SeqTasks,
          answer \in {"quote", "Strike connection error", "Strike quote failed",
                      "Strike quote missing paymentQuoteId"} :
           StrikeQuote(t, answer)
    \/ \E t \in SeqTasks, executed \in BOOLEAN,
          answer \in {"executed", "Strike execution error",
                      "Strike execution failed"} :
           StrikeExecute(t, answer, executed)
    \/ \E t \in SeqTasks, found \in {None} \cup {Some(p) : p \in Preimages} :
           StrikePreimage(t, found)
    \/ \E t \in SeqTasks : StrikeRaises(t)
    \/ \E t \in SeqTasks : StrikeReturns(t)
    \/ \E t \in SeqTasks : StrikeTimesOut(t)
    \/ \E t \in SeqTasks, response \in RetryResponses : RetrySend(t, response)

StrikeSpec == CallerInit /\ [][StrikeNext]_vars

\* the invoices the backend has executed
BackendPaid == IF _wallet = None THEN <<>> ELSE Val(_wallet).paid

\* the invocation of task t has ended with a payment failure: its pay
\* call raised, the ledger got a failure entry and the budget nothing
EndedInPaymentFailure(t) ==
    /\ pc[t] = "done"
    /\ \E i \in 1..Len(trace[t]) :
           trace[t][i][1] = "pay" /\ trace[t][i][2].error # None
    /\ \E i \in 1..Len(trace[t]) :
           trace[t][i][1] = "ledger" /\ ~trace[t][i][2].success
    /\ \A i \in 1..Len(trace[t]) : trace[t][i][1] # "record_payment"

\* C38: when an invocation ends with a payment failure the backend has
\* spent nothing for its invoice; every payment the backend executed is
\* counted in the budget window and is a successful entry of the ledger,
\* also when the bridged call times out or the backend executes the
\* payment and returns no preimage
C38_ExecutedPaymentsCounted ==
    /\ \A t \in SeqTasks :
           EndedInPaymentFailure(t) =>
               \A i \in 1..Len(BackendPaid) : BackendPaid[i].call # nreq
    /\ (\A t \in SeqTasks : pc[t] # "pay") =>
           /\ Len(BackendPaid) = Len(Val(_budget).payments)
           /\ Len(BackendPaid) = Len(SelectSeq(spending_log, LAMBDA entry : entry.success))

\* Strike executed the payment and returned no preimage: the invocation
\* ended with PaymentFailedError, a failure entry and an untouched budget
C38_PaidButRecordedFailed ==
    /\ EndedInPaymentFailure(1)
    /\ Val(outcome[1]).kind = "raise"
    /\ Val(outcome[1]).error.type = "PaymentFailedError"
    /\ Val(outcome[1]).error.message
           = "Strike payment succeeded but no preimage returned"
    /\ Len(BackendPaid) = 1
    /\ BackendPaid[1].call = nreq
    /\ Val(_budget).payments = <<>>
    /\ ~spending_log[Len(spending_log)].success

\* ------------------------------------------------------------------------
\* Two invocations on one AsyncL402Client for the same url, begun while
\* the cache is empty (RaceSpec).
\* ------------------------------------------------------------------------

\* the invocation of task t began with a cache miss
BeganWithMiss(t) ==
    trace[t] # <<>> /\ trace[t][1] = CacheGetCall(FALSE)

\* the tasks whose invocation has called the wallet
Payers ==
    {t \in Tasks : \E i \in 1..Len(trace[t]) : trace[t][i][1] = "pay"}

\* no credential can have expired yet
NothingExpired == now < DEFAULT_TTL

\* C39: two invocations for urls with the same cache key that run
\* concurrently from an empty cache: at most one of them pays, and the
\* cache ends with exactly one credential for that key
C39_AtMostOnePays ==
    (NothingExpired /\ \A t \in Tasks : BeganWithMiss(t)) =>
        /\ Cardinality(Payers) <= 1
        /\ (\A t \in Tasks : pc[t] = "done" /\ Val(outcome[t]).kind = "return"
                             /\ Payers # {})
               => Len(_cache.entries) = 1

\* both invocations missed, both paid and both were retried; the budget
\* holds two payments and the cache one credential
C39_BothPaid ==
    /\ NothingExpired
    /\ \A t \in Tasks : BeganWithMiss(t) /\ pc[t] = "done"
                        /\ Val(outcome[t]).kind = "return"
    /\ Payers = Tasks
    /\ Len(Val(_budget).payments) = 2
    /\ Len(_cache.entries) = 1

\* ------------------------------------------------------------------------
\* A client constructed with a cache that already holds a credential for
\* the resource asked for, which the server no longer accepts:
\* L402Client(budget=..., credential_cache=seeded).  The cache has room
\* for one credential more than CallerSpec's and may hold a credential of
\* a second origin beside the stale one.
\* ------------------------------------------------------------------------

\* the credentials the caller has put before construction, at time 0
SeededCaches ==
    LET empty == [max_size |-> CacheSize + 1, default_ttl |-> Some(DEFAULT_TTL),
                  entries |-> <<>>]
        a == CredentialCache_put(empty, <<"a">>, <<"", "api", "v1", "x">>,
                                 M1, <<"Q">>, None, 0)
        b == CredentialCache_put(empty, <<"b">>, <<"", "api", "v1", "x">>,
                                 M2, <<"Q">>, None, 0)
    IN  {a,
         CredentialCache_put(a, <<"b">>, <<"", "api", "v1", "x">>, M2, <<"Q">>, None, 0),
         CredentialCache_put(b, <<"a">>, <<"", "api", "v1", "x">>, M1, <<"Q">>, None, 0)}

\* requests for the resource of origin a, without and with a header of
\* the caller's
StaleRequests ==
    {[netloc |-> <<"a">>, path |-> <<"", "api", "v1", "x">>, headers |-> <<>>],
     [netloc |-> <<"a">>, path |-> <<"", "api", "v1", "y">>,
      headers |-> <<<<LowerAuthName, <<"B">>>>>>]}

\* what the transport answers first: success, or a challenge with a new
\* macaroon for 1 sat, for 2 sats, or for any amount
StaleResponses ==
    StrikeResponses \cup {Challenge402(QuotedHeader(M1, InvAny))}

StaleInit ==
    /\ now = 0
    /\ _wallet = None
    /\ _budget \in {L402Client_budget(arg) : arg \in BudgetArguments}
    /\ _budget # None
    /\ Val(_budget).max_sats_per_request = PerRequestCeiling
    /\ Val(_budget).allowed_domains = None
    /\ _cache \in SeededCaches
    /\ spending_log = <<>>
    /\ nreq = 0
    /\ pc = [t \in Tasks |-> "idle"]
    /\ req = [t \in Tasks |-> None]
    /\ headers = [t \in Tasks |-> <<>>]
    /\ challenge = [t \in Tasks |-> None]
    /\ amount_sats = [t \in Tasks |-> None]
    /\ outcome = [t \in Tasks |-> None]
    /\ trace = [t \in Tasks |-> <<>>]
    /\ start = [t \in Tasks |-> None]

StaleNext ==
    \/ \E t \in SeqTasks, r \in StaleRequests : Begin(t, r)
    \/ \E t \in SeqTasks, response \in StaleResponses,
          detected \in {None, Some("wallet")} : FirstSend(t, response, detected)
    \/ \E t \in SeqTasks : TransportError(t)
    \/ \E t \in SeqTasks, e \in WalletErrors : PayFailed(t, e)
    \/ \E t \in SeqTasks, preimage \in Preimages : PayReturned(t, preimage)
    \/ \E t \in SeqTasks, response \in RetryResponses : RetrySend(t, response)

StaleSpec == StaleInit /\ [][StaleNext]_vars

\* the value of the item named Authorization in a dict of headers
AuthorizationItem(hdrs) ==
    LET mine == SelectSeq(hdrs, LAMBDA item : item[1] = AuthName)
    IN  [i \in 1..Len(mine) |-> mine[i][2]]

\* the credentials a cache holds under a key
HeldUnder(cache, key) ==
    LET mine == SelectSeq(cache.entries, LAMBDA entry : entry.key = key)
    IN  [i \in 1..Len(mine) |-> mine[i].cred]

\* the entries a cache holds under other keys
HeldBeside(cache, key) ==
    SelectSeq(cache.entries, LAMBDA entry : entry.key # key)

\* the first send of the invocation of task t carried a credential from
\* the cache, and the answer was 402 with a challenge
StaleChallenged(t) ==
    /\ trace[t] # <<>>
    /\ trace[t][1] = CacheGetCall(TRUE)
    /\ challenge[t] # None

\* the wallet has returned a preimage to the invocation of task t
Repaid(t) ==
    pc[t] = "retry" \/ (pc[t] = "done" /\ Count(t, "send") = 2)

\* C40: a first send with a cached credential answered by 402 with a
\* challenge: the invocation checks the budget and pays as one without
\* credential does, and once paid the new credential is the only one held
\* under the resource's key, is the one the retry carries and the one a
\* later request gets from the cache
C40_StaleCredentialReplaced ==
    \A t \in SeqTasks :
        StaleChallenged(t) =>
            LET r == Val(req[t])
                key == _cache_key(Hostname(r), r.path)
                stale == HeldUnder(Val(start[t]).cache, key)
                c == Val(challenge[t])
                fresh == RetryAuthorization(c.macaroon, Val(Arg(t, "pay", 1).preimage))
            IN  /\ Len(stale) = 1
                /\ AuthorizationItem(Arg(t, "send", 1).headers)
                       = <<authorization_header(stale[1])>>
                /\ Count(t, "check") = (IF amount_sats[t] # None THEN 1 ELSE 0)
                /\ Count(t, "check") = 1 =>
                       /\ Arg(t, "check", 1).amount = Val(amount_sats[t])
                       /\ Arg(t, "check", 1).error
                              = BudgetController_check(Val(Val(start[t]).budget),
                                    Val(amount_sats[t]), Some(Hostname(r)),
                                    Val(start[t]).now).error
                /\ Count(t, "pay") = 1 =>
                       /\ Arg(t, "pay", 1).invoice = c.invoice
                       /\ Count(t, "check") = 1 => Arg(t, "check", 1).error = None
                /\ Repaid(t) =>
                       /\ Count(t, "pay") = 1
                       /\ Len(HeldUnder(_cache, key)) = 1
                       /\ authorization_header(HeldUnder(_cache, key)[1]) = fresh
                       /\ HeldUnder(_cache, key)[1].macaroon = c.macaroon
                       /\ HeldBeside(_cache, key)
                              = HeldBeside(Val(start[t]).cache, key)
                       /\ AuthorizationItem(headers[t]) = <<fresh>>
                       /\ Count(t, "send") = 2 =>
                              AuthorizationItem(Arg(t, "send", 2).headers) = <<fresh>>
                       /\ \A later \in StaleRequests :
                              AuthorizationItem(
                                  _apply_cached_credential(_cache, later,
                                      later.headers, now).headers) = <<fresh>>

\* the stale credential M1:Q was sent, the server asked for payment with a
\* new macaroon, the wallet paid, and the retry went out with M2:P while
\* the cache holds M2:P under the key beside the other origin's credential
C40_Witness ==
    /\ StaleChallenged(1)
    /\ pc[1] = "done"
    /\ Count(1, "send") = 2
    /\ AuthorizationItem(Arg(1, "send", 1).headers) = <<RetryAuthorization(M1, <<"Q">>)>>
    /\ AuthorizationItem(Arg(1, "send", 2).headers) = <<RetryAuthorization(M2, <<"P">>)>>
    /\ Len(_cache.entries) = 2
    /\ Len(Val(_budget).payments) = 1

====
